---- MODULE Spec2Model ----
(***************************************************************************)
(* The WIZUALL compiler back end: AST constructors (ast.c), the symbol     *)
(* table (symtab.c), the type-directed code generator (codegen.c) and the  *)
(* driver (main.c).  The emitted C file is a sequence of structured lines. *)
(***************************************************************************)
EXTENDS Integers, Sequences, FiniteSets, TLC

VARIABLES
    symbol_list_head,        \* symtab.c: the table, head (most recent) first
    ast_root,                \* parser.y global: the program's AST root
    parse_result,            \* main.c: yyparse() result
    output_file,             \* codegen.c: "NULL" or "open"
    file,                    \* contents of output.c on disk
    temp_var_counter,        \* codegen.c static counter
    codegen_error_occurred,  \* codegen.c static flag
    errlog,                  \* stderr: the semantic-error diagnostics of this run
    stack,                   \* pending work of the recursive statement walk
    pc,                      \* position of main / generate_code
    prev_out,                \* what the previous completed run left in the file
    return_code,             \* main.c return_code
    etrace,                  \* expression nodes translated by the last step
    last,                    \* the statement step taken last
    symtab_call,             \* the symbol-table call made last, and its result
    ast_call,                \* the ast_add_* call made last, and the elements handed in
    helper_call,             \* the emitted vector helper called last, and its outcome
    run                      \* the generated program in execution: its memory

vars == <<symbol_list_head, ast_root, parse_result, output_file, file,
          temp_var_counter, codegen_error_occurred, errlog, stack, pc,
          prev_out, return_code, etrace, last, symtab_call, ast_call,
          helper_call, run>>

-----------------------------------------------------------------------------
(* Bounds of the model *)

MaxFollow == 1    \* statements following the first statement of a program
MaxVecLen == 2    \* elements of a vector literal
MaxArgs == 3      \* arguments of a function call

-----------------------------------------------------------------------------
(* symtab.h / ast.h *)

SYMBOL_TYPE_SCALAR == "SCALAR"
SYMBOL_TYPE_VECTOR == "VECTOR"

INITIAL_LIST_CAPACITY == 8

NullNode == [type |-> "NULL"]

EmptyList == [items |-> <<>>, count |-> 0, capacity |-> 0]

ensure_list_capacity_GrowByOne(list) ==
    IF list.count >= list.capacity
    THEN [list EXCEPT !.capacity =
              IF list.capacity = 0 THEN INITIAL_LIST_CAPACITY ELSE list.capacity + 1]
    ELSE list

ensure_list_capacity(list) ==
    IF list.count >= list.capacity
    THEN [list EXCEPT !.capacity =
              IF list.capacity = 0 THEN INITIAL_LIST_CAPACITY ELSE list.capacity * 2]
    ELSE list

ListAppend(list, e) ==
    LET g == ensure_list_capacity(list)
    IN [g EXCEPT !.items = Append(@, e), !.count = @ + 1]

ast_new_number(value) == [type |-> "NUMBER", number_value |-> value]

ast_new_identifier(sym) == [type |-> "IDENTIFIER", identifier_symbol |-> sym]

ast_new_binary_op(op, left, right) ==
    [type |-> "BINARY_OP", op |-> op, left |-> left, right |-> right]

ast_new_unary_op(op, operand) ==
    [type |-> "UNARY_OP", op |-> op, operand |-> operand]

ast_new_assignment(sym, expression) ==
    [type |-> "ASSIGNMENT", target_symbol |-> sym, expression |-> expression]

ast_new_vector == [type |-> "VECTOR", vector_elements |-> EmptyList]

ast_new_statement_list == [type |-> "STATEMENT_LIST", statement_list |-> EmptyList]

ast_new_if(condition, if_branch, else_branch) ==
    [type |-> "IF", condition |-> condition, if_branch |-> if_branch,
     else_branch |-> else_branch]

ast_new_while(condition, loop_body) ==
    [type |-> "WHILE", condition |-> condition, loop_body |-> loop_body]

ast_new_func_call(func_sym, args) ==
    [type |-> "FUNC_CALL", function_symbol |-> func_sym, arguments |-> args]

ast_add_vector_element(vector_node, element) ==
    IF vector_node.type # "VECTOR" \/ element.type = "NULL" THEN vector_node
    ELSE [vector_node EXCEPT !.vector_elements = ListAppend(@, element)]

ast_add_statement(list_node, statement) ==
    IF list_node.type # "STATEMENT_LIST" \/ statement.type = "NULL" THEN list_node
    ELSE [list_node EXCEPT !.statement_list = ListAppend(@, statement)]

ast_add_argument(list, argument) ==
    IF argument.type = "NULL" THEN list ELSE ListAppend(list, argument)

\* The parser's use of the constructors: a list node built by appending in
\* source order.
RECURSIVE VectorOf(_)
VectorOf(es) ==
    IF es = <<>> THEN ast_new_vector
    ELSE ast_add_vector_element(VectorOf(SubSeq(es, 1, Len(es) - 1)), es[Len(es)])

RECURSIVE BlockOf(_)
BlockOf(ss) ==
    IF ss = <<>> THEN ast_new_statement_list
    ELSE ast_add_statement(BlockOf(SubSeq(ss, 1, Len(ss) - 1)), ss[Len(ss)])

RECURSIVE ArgsOf(_)
ArgsOf(es) ==
    IF es = <<>> THEN EmptyList
    ELSE ast_add_argument(ArgsOf(SubSeq(es, 1, Len(es) - 1)), es[Len(es)])

-----------------------------------------------------------------------------
(* symtab.c *)

\* a NULL pointer passed as a name or a Symbol*; a NULL double* is <<>>
NullPtr == "(null)"

\* the vector buffer free_symbol_value_data passes to free(), if any
FreedBy(sym) ==
    IF sym.type = SYMBOL_TYPE_VECTOR /\ sym.value.data # <<>>
    THEN <<sym.value.data>> ELSE <<>>

free_symbol_value_data(sym) ==
    IF sym.type = SYMBOL_TYPE_VECTOR /\ sym.value.data # <<>>
    THEN [sym EXCEPT !.value = [data |-> <<>>, size |-> 0]]
    ELSE sym

RECURSIVE LookupFrom(_, _, _)
LookupFrom(list, name, i) ==
    IF i > Len(list) THEN 0
    ELSE IF list[i].name = name THEN i
    ELSE LookupFrom(list, name, i + 1)

\* index of the symbol in the list, 0 (NULL) when not found or name is NULL
symbol_lookup(list, name) ==
    IF name = NullPtr THEN 0 ELSE LookupFrom(list, name, 1)

\* the Symbol* for an index: symbols are identified by their unique name
HandleOf(list, i) == IF i = 0 THEN NullPtr ELSE list[i].name

\* the name test that makes symbol_insert exit (symtab.c:38)
InsertNameInvalid(name) == name = NullPtr

symbol_insert_NoLookup(list, name) ==
    <<[name |-> name, type |-> SYMBOL_TYPE_SCALAR, value |-> [scalar_value |-> 0]]>> \o list

\* the table after symbol_insert(name); on an invalid name the process exits
\* and the table is as it was
symbol_insert(list, name) ==
    IF InsertNameInvalid(name) THEN list
    ELSE IF symbol_lookup(list, name) # 0 THEN list
    ELSE <<[name |-> name, type |-> SYMBOL_TYPE_SCALAR,
            value |-> [scalar_value |-> 0]]>> \o list

symbol_set_scalar(list, name, val) ==
    LET i == symbol_lookup(list, name)
    IN IF i = 0 THEN list
       ELSE [list EXCEPT ![i] = [free_symbol_value_data(@) EXCEPT
                                    !.type = SYMBOL_TYPE_SCALAR,
                                    !.value = [scalar_value |-> val]]]

symbol_set_vector(list, name, data, size) ==
    LET i == symbol_lookup(list, name)
    IN IF i = 0 THEN list
       ELSE [list EXCEPT ![i] = [free_symbol_value_data(@) EXCEPT
                                    !.type = SYMBOL_TYPE_VECTOR,
                                    !.value = IF size = 0 \/ data = <<>>
                                              THEN [data |-> <<>>, size |-> size]
                                              ELSE [data |-> SubSeq(data, 1, size),
                                                    size |-> size]]]

symbol_table_destroy(list) == <<>>

\* sym->type read through a Symbol* held by an AST node
SymType(name) == symbol_list_head[symbol_lookup(symbol_list_head, name)].type

-----------------------------------------------------------------------------
(* codegen.c: code fragments (ExprResult.code) and emitted lines *)

Frag(t, n, i) == [t |-> t, n |-> n, i |-> i]
NumCode(v) == Frag("num", "%f", v)             \* snprintf "%f" of the value
IdCode(name) == Frag("id", name, 0)            \* strdup(sym->name)
TxtCode(text) == Frag("txt", text, 0)          \* a fixed string
TsName(i) == Frag("ts", "_ts", i)              \* "_ts%d"
TvName(i) == Frag("tv", "_tv", i)              \* "_tv%d"
InitDataName(tv) == Frag("arr", "_init_data", tv.i)   \* "%s_init_data"

Line(k, args, op, n) == [k |-> k, args |-> args, op |-> op, n |-> n, x |-> <<>>]

\* The generator's mutable state while one statement is translated: the
\* output written so far, the two statics, stderr, and the node events.
GenState(out, ctr, err, log, at) ==
    [out |-> out, ctr |-> ctr, err |-> err, log |-> log, tr |-> <<>>, at |-> at]

emit(s, line) == [s EXCEPT !.out = Append(@, line)]

report_codegen_error(s, msg) ==
    [s EXCEPT !.log = Append(@, [msg |-> msg, at |-> s.at]),
              !.err = 1]

\* new_temp_scalar_var / new_temp_vector_var: the name, then the counter moves
new_temp_scalar_var_AsVector(s) == TvName(s.ctr)
new_temp_scalar_var(s) == TsName(s.ctr)
new_temp_vector_var(s) == TvName(s.ctr)
TempTaken_CounterStuck(s) == s
TempTaken(s) == [s EXCEPT !.ctr = @ + 1]

ExprResult(code, type, is_temporary, s) ==
    [code |-> code, type |-> type, is_temporary |-> is_temporary, s |-> s]

DefaultResult(s) == ExprResult(TxtCode("0.0"), SYMBOL_TYPE_SCALAR, 1, s)

\* What a child translation handed to its parent
Kid(r) == [code |-> r.code, type |-> r.type, is_temporary |-> r.is_temporary]

\* One event per translated expression node: s0 the state at the node's entry,
\* sm the state once its children are translated, r its result.
Traced(node, s0, sm, kids, r) ==
    [r EXCEPT !.s.tr = Append(@,
        [node |-> node, kids |-> kids,
         code |-> r.code, type |-> r.type, is_temporary |-> r.is_temporary,
         out0 |-> Len(s0.out), outm |-> Len(sm.out), out1 |-> Len(r.s.out),
         ctr0 |-> s0.ctr, ctrm |-> sm.ctr, ctr1 |-> r.s.ctr,
         log0 |-> Len(s0.log), logm |-> Len(sm.log), log1 |-> Len(r.s.log)])]

-----------------------------------------------------------------------------
(* codegen.c: generate_expression *)

TypeNum(type) == IF type = SYMBOL_TYPE_SCALAR THEN 1 ELSE 2    \* the enum, "%d"

VectorOpFunc_AlwaysAdd(op) == "vector_add"

\* the helper named by the operator switch of the Vector-Vector branch
VectorOpFunc(op) ==
    CASE op = "+" -> "vector_add"
      [] op = "-" -> "vector_sub"
      [] op = "*" -> "vector_mul"
      [] op = "/" -> "vector_div"
      [] OTHER -> ""

\* the operator test of the scalar-broadcast branches (codegen.c:366, 374, 385)
BroadcastSupported_AnyOp(op) == TRUE
BroadcastSupported(op) == op = "+"

\* the arguments of vector_add_scalar for Scalar + Vector (codegen.c:377)
ScalarVectorArgs_SourceOrder(l, r) == <<l.code, r.code>>
ScalarVectorArgs(l, r) == <<r.code, l.code>>

\* case NODE_TYPE_BINARY_OP once both operands are translated: l and r are
\* the operands' results, s the state after them.
BinaryOpDispatch(op, l, r, s) ==
    IF l.type = SYMBOL_TYPE_SCALAR /\ r.type = SYMBOL_TYPE_SCALAR
    THEN LET t == new_temp_scalar_var(s)
         IN ExprResult(t, SYMBOL_TYPE_SCALAR, 0,
                emit(TempTaken(s), Line("binop", <<t, l.code, r.code>>, op, 0)))
    ELSE IF l.type = SYMBOL_TYPE_VECTOR /\ r.type = SYMBOL_TYPE_VECTOR
    THEN LET t == new_temp_vector_var(s)
             op_func == VectorOpFunc(op)
         IN IF op_func # ""
            THEN ExprResult(t, SYMBOL_TYPE_VECTOR, 0,
                    emit(TempTaken(s), Line("vcall", <<t, l.code, r.code>>, op_func, 0)))
            ELSE ExprResult(TxtCode("/* Invalid vector op */"), SYMBOL_TYPE_VECTOR, 1,
                    emit(TempTaken(s),
                         Line("cmt", <<>>, "ERROR: Unsupported vector binary op", 0)))
    ELSE IF /\ l.type = SYMBOL_TYPE_VECTOR /\ r.type = SYMBOL_TYPE_SCALAR
            /\ BroadcastSupported(op)
    THEN LET t == new_temp_vector_var(s)
         IN ExprResult(t, SYMBOL_TYPE_VECTOR, 0,
                emit(TempTaken(s),
                     Line("vcall", <<t, l.code, r.code>>, "vector_add_scalar", 0)))
    ELSE IF /\ l.type = SYMBOL_TYPE_SCALAR /\ r.type = SYMBOL_TYPE_VECTOR
            /\ BroadcastSupported(op)
    THEN LET t == new_temp_vector_var(s)
         IN ExprResult(t, SYMBOL_TYPE_VECTOR, 0,
                emit(TempTaken(s),
                     Line("vcall", <<t>> \o ScalarVectorArgs(l, r), "vector_add_scalar", 0)))
    ELSE IF \/ l.type = SYMBOL_TYPE_VECTOR /\ r.type = SYMBOL_TYPE_SCALAR
            \/ l.type = SYMBOL_TYPE_SCALAR /\ r.type = SYMBOL_TYPE_VECTOR
    THEN IF BroadcastSupported(op)
         THEN LET t == new_temp_vector_var(s)
              IN ExprResult(t, SYMBOL_TYPE_VECTOR, 0,
                     emit(TempTaken(s),
                          Line("vcall", <<t, l.code, r.code>>, "vector_add_scalar", 0)))
         ELSE DefaultResult(report_codegen_error(s,
                  "Unsupported binary operation between scalar and vector."))
    ELSE DefaultResult(report_codegen_error(s, "Type mismatch for binary operation"))

UnaryOpDispatch_AnyOperator(op, l, s) ==
    IF l.type = SYMBOL_TYPE_SCALAR
    THEN LET t == new_temp_scalar_var(s)
         IN ExprResult(t, SYMBOL_TYPE_SCALAR, 0,
                emit(TempTaken(s), Line("neg", <<t, l.code>>, op, 0)))
    ELSE ExprResult(TxtCode("/* type error */ 0.0"), SYMBOL_TYPE_SCALAR, 1,
             report_codegen_error(s, "Unsupported unary operation or type mismatch"))

\* case NODE_TYPE_UNARY_OP once the operand is translated
UnaryOpDispatch(op, l, s) ==
    IF l.type = SYMBOL_TYPE_SCALAR /\ op = "-"
    THEN LET t == new_temp_scalar_var(s)
         IN ExprResult(t, SYMBOL_TYPE_SCALAR, 0,
                emit(TempTaken(s), Line("neg", <<t, l.code>>, op, 0)))
    ELSE ExprResult(TxtCode("/* type error */ 0.0"), SYMBOL_TYPE_SCALAR, 1,
             report_codegen_error(s, "Unsupported unary operation or type mismatch"))

\* one element line of a vector literal's initializer; last: i == count - 1
ElementLine(e, last_one, s) ==
    LET sep == IF last_one THEN "" ELSE ","
    IN IF e.type # SYMBOL_TYPE_SCALAR
       THEN emit(s, Line("arr_entry",
                         <<TxtCode("/* WARNING: Non-scalar in vector literal */ 0.0")>>,
                         sep, 0))
       ELSE emit(s, Line("arr_entry", <<e.code>>, sep, 0))

\* the two lines after the element loop of a vector literal
VectorLiteralClose(tv, count, s) ==
    emit(emit(s, Line("arr_close", <<>>, "};", 0)),
         Line("vector_assign", <<tv, InitDataName(tv)>>, "(Vector){ data, size }", count))

\* read_vector: no argument is translated
ReadVectorCall(arg_count, s) ==
    IF arg_count = 0
    THEN LET t == new_temp_vector_var(s)
         IN ExprResult(t, SYMBOL_TYPE_VECTOR, 0,
                emit(TempTaken(s), Line("read", <<t>>, "runtime_read_vector", 0)))
    ELSE ExprResult(TxtCode("/* invalid read_vector call */"), SYMBOL_TYPE_VECTOR, 1,
             report_codegen_error(s, "read_vector() expects 0 arguments"))

ScatterPlotCall_ArityOnly(arg_results, s) ==
    IF Len(arg_results) = 2
    THEN ExprResult(TxtCode("/* scatter_plot call */"), SYMBOL_TYPE_SCALAR, 1,
             emit(s, Line("plot",
                          <<arg_results[1].code, arg_results[1].code,
                            arg_results[2].code, arg_results[2].code>>,
                          "c_scatter_plot", 0)))
    ELSE ExprResult(TxtCode("/* invalid scatter_plot call */"), SYMBOL_TYPE_SCALAR, 1,
             report_codegen_error(s, "scatter_plot() expects 2 vector arguments."))

\* scatter_plot once its arguments are translated
ScatterPlotCall(arg_results, s) ==
    IF /\ Len(arg_results) = 2
       /\ arg_results[1].type = SYMBOL_TYPE_VECTOR
       /\ arg_results[2].type = SYMBOL_TYPE_VECTOR
    THEN ExprResult(TxtCode("/* scatter_plot call */"), SYMBOL_TYPE_SCALAR, 1,
             emit(s, Line("plot",
                          <<arg_results[1].code, arg_results[1].code,
                            arg_results[2].code, arg_results[2].code>>,
                          "c_scatter_plot", 0)))
    ELSE ExprResult(TxtCode("/* invalid scatter_plot call */"), SYMBOL_TYPE_SCALAR, 1,
             report_codegen_error(s, "scatter_plot() expects 2 vector arguments."))

\* the number of characters of a decimal numeral / of a code fragment's text
RECURSIVE DecLen(_)
DecLen(n) == IF n < 10 THEN 1 ELSE 1 + DecLen(n \div 10)

CodeLen(c) ==
    CASE c.t = "num" -> DecLen(c.i) + 7              \* "%f": six decimals
      [] c.t = "id" -> Len(c.n)
      [] c.t \in {"ts", "tv"} -> Len(c.n) + DecLen(c.i)
      [] c.t = "arr" -> 3 + DecLen(c.i) + Len(c.n)
      [] OTHER -> Len(c.n)

Min(a, b) == IF a < b THEN a ELSE b

\* strncat(dest, src, n): the number of characters of src that are appended
strncat(src_len, n) == Min(src_len, n)

\* the loop that builds arg_str (codegen.c:489-499): used is strlen(arg_str);
\* each piece records how much of the separator and of the argument text
\* was appended
RECURSIVE BuildArgStr(_, _, _, _, _)
BuildArgStr(arg_results, i, used, capacity, pieces) ==
    IF i > Len(arg_results) THEN pieces
    ELSE LET sep == IF i > 1 THEN strncat(2, capacity - used - 1) ELSE 0
             is_vec == arg_results[i].type = SYMBOL_TYPE_VECTOR
             full == IF is_vec
                     THEN Min(2 * CodeLen(arg_results[i].code) + 12, 127)
                     ELSE CodeLen(arg_results[i].code)
             kept == strncat(full, capacity - (used + sep) - 1)
         IN BuildArgStr(arg_results, i + 1, used + sep + kept, capacity,
                Append(pieces,
                       [code |-> arg_results[i].code,
                        form |-> IF is_vec THEN "%s.data, %s.size" ELSE "%s",
                        sep |-> sep, len |-> full, kept |-> kept]))

\* a generic external function once its arguments are translated
GenericCall(func_name, arg_results, s) ==
    LET arg_str_capacity == Len(arg_results) * 25 + 5
        arg_str == BuildArgStr(arg_results, 1, 0, arg_str_capacity, <<>>)
        t == new_temp_scalar_var(s)
    IN ExprResult(t, SYMBOL_TYPE_SCALAR, 0,
           emit(TempTaken(s),
                [Line("call", <<t>>, func_name, Len(arg_results)) EXCEPT !.x = arg_str]))

RECURSIVE generate_expression(_, _)
RECURSIVE GenElements(_, _, _, _)
RECURSIVE GenArguments(_, _, _, _)

\* the element loop of a vector literal: returns the state and the results
GenElements(list, i, s, kids) ==
    IF i > list.count THEN [s |-> s, kids |-> kids]
    ELSE LET e == generate_expression(list.items[i], s)
         IN GenElements(list, i + 1, ElementLine(e, i = list.count, e.s),
                        Append(kids, Kid(e)))

\* the argument loop of a function call
GenArguments(list, i, s, kids) ==
    IF i > list.count THEN [s |-> s, kids |-> kids]
    ELSE LET e == generate_expression(list.items[i], s)
         IN GenArguments(list, i + 1, e.s, Append(kids, Kid(e)))

generate_expression(node, s) ==
    CASE node.type = "NULL" ->
           ExprResult(TxtCode("/* null expr */"), SYMBOL_TYPE_SCALAR, 1, s)
      [] node.type = "NUMBER" ->
           Traced(node, s, s, <<>>,
                  ExprResult(NumCode(node.number_value), SYMBOL_TYPE_SCALAR, 1, s))
      [] node.type = "IDENTIFIER" ->
           Traced(node, s, s, <<>>,
                  ExprResult(IdCode(node.identifier_symbol),
                             SymType(node.identifier_symbol), 1, s))
      [] node.type = "VECTOR" ->
           LET tv == new_temp_vector_var(s)
               s1 == emit(emit(TempTaken(s),
                               Line("cmt", <<tv>>, "Generating vector literal for", 0)),
                          Line("arr_open", <<InitDataName(tv)>>, "double %s[] = {", 0))
               g == GenElements(node.vector_elements, 1, s1, <<>>)
           IN Traced(node, s, g.s, g.kids,
                     ExprResult(tv, SYMBOL_TYPE_VECTOR, 0,
                                VectorLiteralClose(tv, node.vector_elements.count, g.s)))
      [] node.type = "BINARY_OP" ->
           LET l == generate_expression(node.left, s)
               r == generate_expression(node.right, l.s)
           IN Traced(node, s, r.s, <<Kid(l), Kid(r)>>,
                     BinaryOpDispatch(node.op, Kid(l), Kid(r), r.s))
      [] node.type = "UNARY_OP" ->
           LET l == generate_expression(node.operand, s)
           IN Traced(node, s, l.s, <<Kid(l)>>, UnaryOpDispatch(node.op, Kid(l), l.s))
      [] node.type = "FUNC_CALL" ->
           LET func_name == node.function_symbol
               s1 == emit(s, Line("cmt", <<IdCode(func_name)>>,
                                  "Generating function call", 0))
           IN IF func_name = "read_vector"
              THEN Traced(node, s, s1, <<>>, ReadVectorCall(node.arguments.count, s1))
              ELSE LET g == GenArguments(node.arguments, 1, s1, <<>>)
                   IN Traced(node, s, g.s, g.kids,
                             IF func_name = "scatter_plot"
                             THEN ScatterPlotCall(g.kids, g.s)
                             ELSE GenericCall(func_name, g.kids, g.s))
      [] OTHER ->
           ExprResult(TxtCode("/* UNIMPL EXPR */"), SYMBOL_TYPE_SCALAR, 1,
                      emit(s, Line("cmt", <<>>, "Expression generation not implemented", 0)))

-----------------------------------------------------------------------------
(* codegen.c: generate_statement.  The recursion is unfolded on `stack`: a   *)
(* call generate_statement(child) becomes a "stmt" task, and what the caller *)
(* emits after the call returns becomes an "emit" task behind it.            *)

NoLine == Line("", <<>>, "", 0)
StmtTask(node, path) == [kind |-> "stmt", node |-> node, line |-> NoLine, path |-> path]
EmitTask(line) == [kind |-> "emit", node |-> NullNode, line |-> line, path |-> <<>>]

StmtOutcome(s, push) == [s |-> s, push |-> push]

\* case NODE_TYPE_STATEMENT_LIST
StatementListCase(node, path, s) ==
    StmtOutcome(emit(s, Line("block_open", <<>>, "{ // Start block", 0)),
                [i \in 1..node.statement_list.count |->
                     StmtTask(node.statement_list.items[i], path \o <<i>>)]
                \o <<EmitTask(Line("block_close", <<>>, "} // End block", 0))>>)

AssignmentEmit_NoKindCheck(target_var, target_type, e, s) ==
    IF target_type = SYMBOL_TYPE_SCALAR
    THEN emit(s, Line("assign", <<IdCode(target_var), e.code>>, "=", 0))
    ELSE emit(s, Line("vector_assign", <<IdCode(target_var), e.code>>, "", 0))

\* case NODE_TYPE_ASSIGNMENT after the right-hand side translated without error
AssignmentEmit(target_var, target_type, e, s) ==
    IF ~(\/ target_type = SYMBOL_TYPE_SCALAR /\ e.type = SYMBOL_TYPE_SCALAR
         \/ target_type = SYMBOL_TYPE_VECTOR /\ e.type = SYMBOL_TYPE_VECTOR)
    THEN report_codegen_error(s, "Type mismatch in assignment")
    ELSE IF target_type = SYMBOL_TYPE_SCALAR
         THEN emit(s, Line("assign", <<IdCode(target_var), e.code>>, "=", 0))
         ELSE emit(s, Line("vector_assign", <<IdCode(target_var), e.code>>, "", 0))

\* the check of the flag after the right-hand side (codegen.c:560)
AssignmentAfterExpr(target_var, target_type, e, s) ==
    IF s.err = 1 THEN s
    ELSE AssignmentEmit(target_var, target_type, e,
            emit(s, Line("cmt", <<>>, "RHS Type", TypeNum(e.type))))

AssignmentCase(node, path, s) ==
    LET target_var == node.target_symbol
        target_type == SymType(target_var)
        e == generate_expression(node.expression,
                emit(s, Line("cmt", <<IdCode(target_var)>>, "Assignment to",
                             TypeNum(target_type))))
    IN StmtOutcome(AssignmentAfterExpr(target_var, target_type, Kid(e), e.s), <<>>)

\* standalone expressions and calls
ExpressionCase(node, path, s) ==
    LET e == generate_expression(node,
                emit(s, Line("cmt", <<>>, "Expression/Call statement (value discarded)", 0)))
        s1 == IF node.type # "FUNC_CALL" \/ node.function_symbol # "scatter_plot"
              THEN emit(e.s, Line("discard", <<e.code>>, "(void)", 0))
              ELSE e.s
        s2 == IF e.type = SYMBOL_TYPE_VECTOR /\ e.is_temporary = 0
              THEN emit(s1, Line("cmt", <<e.code>>, "vector_free_data if needed", 0))
              ELSE s1
    IN StmtOutcome(s2, <<>>)

ConditionGuard_NoKindCheck(kw, e, s) == emit(s, Line(kw, <<e.code>>, "!= 0.0", 0))

\* the guard line of an If or While whose condition translated without error
ConditionGuard(kw, e, s) ==
    IF e.type # SYMBOL_TYPE_SCALAR
    THEN emit(report_codegen_error(s, "Non-scalar condition"),
              Line(kw, <<TxtCode("0")>>, "Type error in condition", 0))
    ELSE emit(s, Line(kw, <<e.code>>, "!= 0.0", 0))

IfCase(node, path, s) ==
    LET e == generate_expression(node.condition, emit(s, Line("cmt", <<>>, "If statement", 0)))
    IN IF e.s.err = 1
       THEN StmtOutcome(emit(e.s, Line("if", <<TxtCode("0")>>, "Type error in condition", 0)),
                        <<>>)
       ELSE StmtOutcome(ConditionGuard("if", Kid(e), e.s),
                <<StmtTask(node.if_branch, path \o <<1>>),
                  EmitTask(Line("close", <<>>, "}", 0))>>
                \o (IF node.else_branch.type # "NULL"
                    THEN <<EmitTask(Line("else", <<>>, "else {", 0)),
                           StmtTask(node.else_branch, path \o <<2>>),
                           EmitTask(Line("close", <<>>, "}", 0))>>
                    ELSE <<>>))

WhileCase_HeaderBeforeCondition(node, path, s) ==
    LET s0 == emit(s, Line("cmt", <<>>, "While loop", 0))
        e0 == generate_expression(node.condition, s0)
        e == generate_expression(node.condition,
                                 emit(s0, Line("while", <<e0.code>>, "!= 0.0", 0)))
    IN StmtOutcome(e.s,
            <<StmtTask(node.loop_body, path \o <<1>>),
              EmitTask(Line("close", <<>>, "} // End while", 0))>>)

\* case NODE_TYPE_WHILE
WhileCase(node, path, s) ==
    LET e == generate_expression(node.condition, emit(s, Line("cmt", <<>>, "While loop", 0)))
    IN IF e.s.err = 1
       THEN StmtOutcome(emit(e.s, Line("while", <<TxtCode("0")>>, "Type error in condition", 0)),
                        <<>>)
       ELSE StmtOutcome(ConditionGuard("while", Kid(e), e.s),
                <<StmtTask(node.loop_body, path \o <<1>>),
                  EmitTask(Line("close", <<>>, "} // End while", 0))>>)

IsExprNode(node) ==
    node.type \in {"NUMBER", "IDENTIFIER", "VECTOR", "BINARY_OP", "UNARY_OP", "FUNC_CALL"}

StatementSkipped_NoFlagCheck(node, err) == node.type = "NULL"

\* The early returns of generate_statement (codegen.c:537, 542): TRUE when the
\* statement is left without being translated.
StatementSkipped(node, err) == node.type = "NULL" \/ err # 0

-----------------------------------------------------------------------------
(* codegen.c: the fixed sections of the output *)

Boilerplate ==
    <<Line("text", <<>>, "// Generated by WIZUALL Compiler", 0),
      Line("text", <<>>, "#include ...", 0)>>

generate_runtime_helpers ==
    [i \in 1..10 |->
        Line("helper", <<>>,
             <<"Vector", "vector_create", "vector_free_data", "vector_assign",
               "vector_add", "vector_sub", "vector_mul", "vector_div",
               "vector_add_scalar", "runtime_read_vector">>[i], 0)]

\* the emitted helper vector_assign(dst, src) as it executes (codegen.c:116-126):
\* the new value of *dst; no data stands for a NULL data pointer
vector_assign(dst, src) ==
    [size |-> src.size,
     data |-> IF src.size > 0 /\ src.data # <<>>
              THEN SubSeq(src.data, 1, src.size) ELSE <<>>]

MainOpen == <<Line("main_open", <<>>, "int main() {", 0)>>

MainClose ==
    <<Line("text", <<>>, "printf(Code execution finished.)", 0),
      Line("main_close", <<>>, "return 0; } // end main", 0)>>

TEMP_POOL == 20

declare_variables_OldestFirst(list) ==
    <<Line("text", <<>>, "// --- Variable Declarations ---", 0)>>
    \o [i \in 1..Len(list) |->
          IF list[Len(list) + 1 - i].type = SYMBOL_TYPE_SCALAR
          THEN Line("decl", <<IdCode(list[Len(list) + 1 - i].name)>>, "double %s = 0.0;", 0)
          ELSE Line("decl", <<IdCode(list[Len(list) + 1 - i].name)>>,
                    "Vector %s = { NULL, 0 };", 0)]
    \o [j \in 1..(2 * TEMP_POOL) |->
          IF j % 2 = 1
          THEN Line("decl", <<TsName((j - 1) \div 2)>>, "double _ts%d;", 0)
          ELSE Line("decl", <<TvName((j - 2) \div 2)>>, "Vector _tv%d = { NULL, 0 };", 0)]

\* the declarations: one per symbol, walking the list from its head, then the
\* pool of temporaries
declare_variables(list) ==
    <<Line("text", <<>>, "// --- Variable Declarations ---", 0)>>
    \o [i \in 1..Len(list) |->
          IF list[i].type = SYMBOL_TYPE_SCALAR
          THEN Line("decl", <<IdCode(list[i].name)>>, "double %s = 0.0;", 0)
          ELSE Line("decl", <<IdCode(list[i].name)>>, "Vector %s = { NULL, 0 };", 0)]
    \o [j \in 1..(2 * TEMP_POOL) |->
          IF j % 2 = 1
          THEN Line("decl", <<TsName((j - 1) \div 2)>>, "double _ts%d;", 0)
          ELSE Line("decl", <<TvName((j - 2) \div 2)>>, "Vector _tv%d = { NULL, 0 };", 0)]

VectorSymbols(list) == SelectSeq(list, LAMBDA sym : sym.type = SYMBOL_TYPE_VECTOR)

generate_cleanup_code_SymbolsOnly(list, counter) ==
    <<Line("text", <<>>, "// --- Cleanup Code ---", 0)>>
    \o [i \in 1..Len(VectorSymbols(list)) |->
          Line("free", <<IdCode(VectorSymbols(list)[i].name)>>, "vector_free_data", 0)]

\* the cleanup section: the Vector symbols, then _tv0 .. _tv(counter - 1)
generate_cleanup_code(list, counter) ==
    <<Line("text", <<>>, "// --- Cleanup Code ---", 0)>>
    \o [i \in 1..Len(VectorSymbols(list)) |->
          Line("free", <<IdCode(VectorSymbols(list)[i].name)>>, "vector_free_data", 0)]
    \o [i \in 1..counter |-> Line("free", <<TvName(i - 1)>>, "vector_free_data", 0)]

-----------------------------------------------------------------------------
(* The programs and symbol tables handed to the generator *)

BinOps == {"+", "-", "*", "/"}
UnOps == {"-", "+"}
VarNames == {"x", "v", "a", "b", "c", "temperature"}

Num1 == ast_new_number(1)
IdX == ast_new_identifier("x")
IdV == ast_new_identifier("v")
IdT == ast_new_identifier("temperature")
Atoms == {Num1, IdX, IdV}

RECURSIVE SeqsUpTo(_, _)
SeqsUpTo(S, n) ==
    IF n = 0 THEN {<<>>}
    ELSE LET shorter == SeqsUpTo(S, n - 1)
         IN shorter \cup {Append(q, e) : q \in {t \in shorter : Len(t) = n - 1}, e \in S}

Vec1 == VectorOf(<<Num1>>)
Inner == {ast_new_binary_op("+", IdX, Num1), ast_new_binary_op("-", IdV, IdX)}

BinExprs == {ast_new_binary_op(op, a, b) : op \in BinOps, a \in Atoms, b \in Atoms}
NestedExprs ==
    {ast_new_binary_op(op, a, b) : op \in {"+", "-"}, a \in Inner, b \in Atoms \cup Inner}
    \cup {ast_new_binary_op(op, a, b) : op \in {"+", "*"}, a \in Atoms, b \in Inner}
    \cup {ast_new_binary_op(op, Vec1, b) : op \in BinOps, b \in Atoms \cup {Vec1}}
    \cup {ast_new_binary_op(op, a, Vec1) : op \in BinOps, a \in Atoms}
UnExprs == {ast_new_unary_op(op, a) : op \in UnOps, a \in Atoms \cup Inner}
VecExprs ==
    {VectorOf(es) : es \in SeqsUpTo({Num1, IdV, ast_new_binary_op("+", IdX, Num1)}, MaxVecLen)}
CallExprs ==
    {ast_new_func_call(f, ArgsOf(es)) :
        f \in {"read_vector", "scatter_plot", "sum"}, es \in SeqsUpTo({IdX, IdV}, MaxArgs)}
    \cup {ast_new_func_call(f, ArgsOf(<<Vec1, a>>)) : f \in {"scatter_plot", "sum"},
                                                     a \in {Vec1, Num1}}
    \cup {ast_new_func_call("sum", ArgsOf(es)) : es \in {<<IdT>>, <<IdX, IdT>>}}

ValueExprs ==
    Atoms \cup BinExprs \cup NestedExprs \cup UnExprs \cup VecExprs
    \cup {ast_new_func_call("read_vector", EmptyList),
          ast_new_func_call("sum", ArgsOf(<<IdV>>))}

\* statements that may follow the first one, and fill the blocks
FollowStmts ==
    {ast_new_assignment("x", ast_new_binary_op("-", IdV, IdX)),
     ast_new_assignment("v", Vec1)}

Blocks == {BlockOf(ss) : ss \in SeqsUpTo(FollowStmts, 1)}
Conditions == {Num1, IdX, IdV, ast_new_binary_op("-", IdX, IdV)}

FirstStmts ==
    {ast_new_assignment("x", e) : e \in ValueExprs}
    \cup Atoms \cup {Vec1, ast_new_binary_op("+", IdX, IdV)} \cup CallExprs
    \cup {ast_new_if(c, b, e) : c \in Conditions, b \in Blocks, e \in Blocks \cup {NullNode}}
    \cup {ast_new_while(c, b) : c \in Conditions, b \in Blocks}
    \cup Blocks

\* a = [..]; b = [..]; c = a + b;
ExampleProgram ==
    <<ast_new_assignment("a", Vec1), ast_new_assignment("b", Vec1),
      ast_new_assignment("c", ast_new_binary_op("+", ast_new_identifier("a"),
                                                ast_new_identifier("b")))>>

\* a program whose statements need more temporaries than are declared:
\* x = (x + 1) + (x + 1); repeated, three temporaries each time
LongProgram ==
    [i \in 1..(TEMP_POOL \div 3 + 1) |->
        ast_new_assignment("x", ast_new_binary_op("+", ast_new_binary_op("+", IdX, Num1),
                                                  ast_new_binary_op("+", IdX, Num1)))]

Programs ==
    {<<f>> \o t : f \in FirstStmts, t \in SeqsUpTo(FollowStmts, MaxFollow)}
    \cup {ExampleProgram, LongProgram}

\* the names a program refers to, in source order
RECURSIVE References(_)
RECURSIVE ListReferences(_, _)
ListReferences(list, i) ==
    IF i > list.count THEN <<>>
    ELSE References(list.items[i]) \o ListReferences(list, i + 1)
References(node) ==
    CASE node.type = "IDENTIFIER" -> <<node.identifier_symbol>>
      [] node.type = "VECTOR" -> ListReferences(node.vector_elements, 1)
      [] node.type = "BINARY_OP" -> References(node.left) \o References(node.right)
      [] node.type = "UNARY_OP" -> References(node.operand)
      [] node.type = "ASSIGNMENT" -> <<node.target_symbol>> \o References(node.expression)
      [] node.type = "STATEMENT_LIST" -> ListReferences(node.statement_list, 1)
      [] node.type = "IF" -> References(node.condition) \o References(node.if_branch)
                             \o References(node.else_branch)
      [] node.type = "WHILE" -> References(node.condition) \o References(node.loop_body)
      [] node.type = "FUNC_CALL" -> <<node.function_symbol>>
                                    \o ListReferences(node.arguments, 1)
      [] OTHER -> <<>>

\* the table the front end leaves: one symbol_insert per reference, then the
\* kind each variable was last given
RECURSIVE InsertAll(_, _)
InsertAll(list, names) ==
    IF names = <<>> THEN list
    ELSE InsertAll(symbol_insert(list, Head(names)), Tail(names))

RECURSIVE SetKinds(_, _, _)
SetKinds(list, i, vecs) ==
    IF i > Len(list) THEN list
    ELSE SetKinds(IF list[i].name \in vecs
                  THEN symbol_set_vector(list, list[i].name, <<1>>, 1)
                  ELSE list,
                  i + 1, vecs)

ParsedTable(root, vecs) == SetKinds(InsertAll(<<>>, References(root)), 1, vecs)

NamesOf(seq) == {seq[i] : i \in DOMAIN seq}

-----------------------------------------------------------------------------
(* The state machine: main.c and generate_code *)

\* no symbol-table call is on record
NoCall == [op |-> "none", name |-> "", ret |-> "", before |-> <<>>,
           freed |-> <<>>, inserted |-> {}]

\* no ast_add_* call is on record
NoAstCall == [op |-> "none", element |-> NullNode, before |-> NullNode, appended |-> <<>>]

\* no emitted helper has been called
NoHelperCall == [op |-> "none", v1 |-> <<>>, v2 |-> <<>>, aborted |-> FALSE,
                 result |-> <<>>, divisors |-> <<>>]

\* the generated program has not been started
NoRun == [ip |-> 0, scal |-> <<>>, vec |-> <<>>, init |-> <<>>, heap |-> {},
          next |-> 1, lost |-> {}, aborted |-> FALSE]

NoStep == [node |-> NullNode, path |-> <<>>, skipped |-> FALSE,
           out0 |-> 0, ctr0 |-> 0, err0 |-> 0, log0 |-> 0,
           out1 |-> 0, ctr1 |-> 0, err1 |-> 0, log1 |-> 0]

Init ==
    /\ \/ \E prog \in Programs :
            \E vecs \in SUBSET (VarNames \cap NamesOf(References(BlockOf(prog)))) :
               /\ parse_result = 0
               /\ ast_root = BlockOf(prog)
               /\ symbol_list_head = ParsedTable(BlockOf(prog), vecs)
       \/ /\ parse_result \in {0, 1}
          /\ ast_root = NullNode
          /\ symbol_list_head = <<>>
    /\ output_file = "NULL"
    /\ file = <<>>
    /\ temp_var_counter = 0
    /\ codegen_error_occurred = 0
    /\ errlog = <<>>
    /\ stack = <<>>
    /\ pc = "parsed"
    /\ prev_out = <<>>
    /\ return_code = 1
    /\ etrace = <<>>
    /\ last = NoStep
    /\ symtab_call = NoCall
    /\ ast_call = NoAstCall
    /\ helper_call = NoHelperCall
    /\ run = NoRun

\* what generate_code writes before it walks the statements (codegen.c:699-722)
Prologue(list) ==
    Boilerplate \o generate_runtime_helpers \o MainOpen \o declare_variables(list)
    \o <<Line("text", <<>>, "// --- Program Statements ---", 0)>>

Epilogue_CloseBeforeCleanup(list, counter) ==
    <<Line("text", <<>>, "// ------------------------", 0)>>
    \o MainClose \o generate_cleanup_code(list, counter)

\* what it writes after the walk (codegen.c:724-732)
Epilogue(list, counter) ==
    <<Line("text", <<>>, "// ------------------------", 0)>>
    \o generate_cleanup_code(list, counter) \o MainClose

ResetStatics_KeepCounter(counter, flag) == [ctr |-> counter, err |-> 0]

\* The statics as generate_code sets them before it emits anything
\* (codegen.c:696-697): the counter and the flag.
ResetStatics(counter, flag) == [ctr |-> 0, err |-> 0]

\* main calls generate_code (main.c:46), or a caller runs it again on the same
\* AST; fopen succeeds.
GenerateCodeBegin ==
    /\ pc \in {"parsed", "returned"}
    /\ parse_result = 0
    /\ ast_root.type = "STATEMENT_LIST"
    /\ output_file' = "open"
    /\ temp_var_counter' = ResetStatics(temp_var_counter, codegen_error_occurred).ctr
    /\ codegen_error_occurred' = ResetStatics(temp_var_counter, codegen_error_occurred).err
    /\ file' = Prologue(symbol_list_head)
    /\ stack' = <<StmtTask(ast_root, <<>>)>>
    /\ errlog' = <<>>
    /\ etrace' = <<>>
    /\ last' = NoStep
    /\ prev_out' = IF pc = "returned" THEN file ELSE prev_out
    /\ pc' = "gen"
    /\ UNCHANGED <<ast_call, helper_call, run, symtab_call, symbol_list_head, ast_root, parse_result, return_code>>

\* fopen fails: perror and return, nothing else is touched (codegen.c:691-695)
GenerateCodeOpenFails ==
    /\ pc = "parsed"
    /\ parse_result = 0
    /\ ast_root.type = "STATEMENT_LIST"
    /\ pc' = "failed_open"
    /\ UNCHANGED <<ast_call, helper_call, run, symtab_call, symbol_list_head, ast_root, parse_result, output_file, file,
                   temp_var_counter, codegen_error_occurred, errlog, stack,
                   prev_out, return_code, etrace, last>>

Walking == pc = "gen" /\ stack # <<>>
Top == Head(stack)
Entry == GenState(file, temp_var_counter, codegen_error_occurred, errlog, Top.path)

Commit_DropsSymbol(o, skipped) ==
    /\ file' = o.s.out
    /\ temp_var_counter' = o.s.ctr
    /\ codegen_error_occurred' = o.s.err
    /\ errlog' = o.s.log
    /\ etrace' = o.s.tr
    /\ stack' = o.push \o Tail(stack)
    /\ last' = [node |-> Top.node, path |-> Top.path, skipped |-> skipped,
                out0 |-> Len(file), ctr0 |-> temp_var_counter,
                err0 |-> codegen_error_occurred, log0 |-> Len(errlog),
                out1 |-> Len(o.s.out), ctr1 |-> o.s.ctr,
                err1 |-> o.s.err, log1 |-> Len(o.s.log)]
    /\ symbol_list_head' = IF symbol_list_head = <<>> THEN <<>> ELSE Tail(symbol_list_head)
    /\ UNCHANGED <<ast_call, helper_call, run, symtab_call, ast_root, parse_result, output_file, pc,
                   prev_out, return_code>>

\* one generate_statement call: the statics and the output change, the table
\* and the AST are only read (codegen.c:536-680)
Commit(o, skipped) ==
    /\ file' = o.s.out
    /\ temp_var_counter' = o.s.ctr
    /\ codegen_error_occurred' = o.s.err
    /\ errlog' = o.s.log
    /\ etrace' = o.s.tr
    /\ stack' = o.push \o Tail(stack)
    /\ last' = [node |-> Top.node, path |-> Top.path, skipped |-> skipped,
                out0 |-> Len(file), ctr0 |-> temp_var_counter,
                err0 |-> codegen_error_occurred, log0 |-> Len(errlog),
                out1 |-> Len(o.s.out), ctr1 |-> o.s.ctr,
                err1 |-> o.s.err, log1 |-> Len(o.s.log)]
    /\ UNCHANGED <<ast_call, helper_call, run, symtab_call, symbol_list_head, ast_root, parse_result, output_file, pc,
                   prev_out, return_code>>

GenStmtSkip ==
    /\ Walking /\ Top.kind = "stmt"
    /\ StatementSkipped(Top.node, codegen_error_occurred)
    /\ Commit(StmtOutcome(Entry, <<>>), TRUE)

GenStmtList ==
    /\ Walking /\ Top.kind = "stmt"
    /\ ~StatementSkipped(Top.node, codegen_error_occurred)
    /\ Top.node.type = "STATEMENT_LIST"
    /\ Commit(StatementListCase(Top.node, Top.path, Entry), FALSE)

GenStmtAssignment ==
    /\ Walking /\ Top.kind = "stmt"
    /\ ~StatementSkipped(Top.node, codegen_error_occurred)
    /\ Top.node.type = "ASSIGNMENT"
    /\ Commit(AssignmentCase(Top.node, Top.path, Entry), FALSE)

GenStmtExpression ==
    /\ Walking /\ Top.kind = "stmt"
    /\ ~StatementSkipped(Top.node, codegen_error_occurred)
    /\ IsExprNode(Top.node)
    /\ Commit(ExpressionCase(Top.node, Top.path, Entry), FALSE)

GenStmtIf ==
    /\ Walking /\ Top.kind = "stmt"
    /\ ~StatementSkipped(Top.node, codegen_error_occurred)
    /\ Top.node.type = "IF"
    /\ Commit(IfCase(Top.node, Top.path, Entry), FALSE)

GenStmtWhile ==
    /\ Walking /\ Top.kind = "stmt"
    /\ ~StatementSkipped(Top.node, codegen_error_occurred)
    /\ Top.node.type = "WHILE"
    /\ Commit(WhileCase(Top.node, Top.path, Entry), FALSE)

\* the caller's emit after a nested generate_statement returned
EmitAfterChild ==
    /\ Walking /\ Top.kind = "emit"
    /\ file' = Append(file, Top.line)
    /\ stack' = Tail(stack)
    /\ UNCHANGED <<ast_call, helper_call, run, symtab_call, symbol_list_head, ast_root, parse_result, output_file,
                   temp_var_counter, codegen_error_occurred, errlog, pc,
                   prev_out, return_code, etrace, last>>

\* the walk is over: cleanup code, end of main, fclose (codegen.c:724-743)
GenerateCodeEnd ==
    /\ pc = "gen" /\ stack = <<>>
    /\ file' = file \o Epilogue(symbol_list_head, temp_var_counter)
    /\ output_file' = "NULL"
    /\ pc' = "returned"
    /\ UNCHANGED <<ast_call, helper_call, run, symtab_call, symbol_list_head, ast_root, parse_result, temp_var_counter,
                   codegen_error_occurred, errlog, stack, prev_out, return_code,
                   etrace, last>>

\* main after generate_code returned: the AST is freed, return_code = 0, the
\* table is destroyed (main.c:47-69)
MainAfterGenerate ==
    /\ pc \in {"returned", "failed_open"}
    /\ return_code' = 0
    /\ ast_root' = NullNode
    /\ symbol_list_head' = symbol_table_destroy(symbol_list_head)
    /\ pc' = "exit"
    /\ UNCHANGED <<ast_call, helper_call, run, symtab_call, parse_result, output_file, file, temp_var_counter,
                   codegen_error_occurred, errlog, stack, prev_out, etrace, last>>

\* parsing succeeded with no AST (main.c:51-54)
MainNoAst ==
    /\ pc = "parsed" /\ parse_result = 0 /\ ast_root.type = "NULL"
    /\ return_code' = 0
    /\ symbol_list_head' = symbol_table_destroy(symbol_list_head)
    /\ pc' = "exit"
    /\ UNCHANGED <<ast_call, helper_call, run, symtab_call, ast_root, parse_result, output_file, file, temp_var_counter,
                   codegen_error_occurred, errlog, stack, prev_out, etrace, last>>

\* parsing failed (main.c:56-61)
MainParseFailed ==
    /\ pc = "parsed" /\ parse_result # 0
    /\ return_code' = 1
    /\ symbol_list_head' = symbol_table_destroy(symbol_list_head)
    /\ pc' = "exit"
    /\ UNCHANGED <<ast_call, helper_call, run, symtab_call, ast_root, parse_result, output_file, file, temp_var_counter,
                   codegen_error_occurred, errlog, stack, prev_out, etrace, last>>

Next ==
    \/ GenerateCodeBegin
    \/ GenerateCodeOpenFails
    \/ GenStmtSkip
    \/ GenStmtList
    \/ GenStmtAssignment
    \/ GenStmtExpression
    \/ GenStmtIf
    \/ GenStmtWhile
    \/ EmitAfterChild
    \/ GenerateCodeEnd
    \/ MainAfterGenerate
    \/ MainNoAst
    \/ MainParseFailed

Spec == Init /\ [][Next]_vars

-----------------------------------------------------------------------------
(* The symbol table driven through its interface (symtab.h) *)

MaxSize == 2      \* length of the data handed to symbol_set_vector

SymNames == {"x", ""}
SymScalars == {0, 5}
SymData == {<<>>} \cup {[i \in 1..n |-> i] : n \in 1..MaxSize}

\* the Symbol* values a caller can hold: the live symbols and NULL
Handles(list) == {list[i].name : i \in DOMAIN list} \cup {NullPtr}

RECURSIVE AllFreed(_)
AllFreed(list) ==
    IF list = <<>> THEN <<>> ELSE FreedBy(Head(list)) \o AllFreed(Tail(list))

codegen_vars == <<ast_root, parse_result, output_file, file, temp_var_counter,
                  codegen_error_occurred, errlog, stack, prev_out, return_code,
                  etrace, last, ast_call, helper_call, run>>

SymtabInit ==
    /\ symbol_list_head = <<>>
    /\ ast_root = NullNode
    /\ parse_result = 0
    /\ output_file = "NULL"
    /\ file = <<>>
    /\ temp_var_counter = 0
    /\ codegen_error_occurred = 0
    /\ errlog = <<>>
    /\ stack = <<>>
    /\ pc = "symtab"
    /\ prev_out = <<>>
    /\ return_code = 1
    /\ etrace = <<>>
    /\ last = NoStep
    /\ symtab_call = NoCall
    /\ ast_call = NoAstCall
    /\ helper_call = NoHelperCall
    /\ run = NoRun

SymInsert ==
    /\ pc = "symtab"
    /\ \E name \in SymNames \cup {NullPtr} :
          LET list == symbol_insert(symbol_list_head, name)
          IN /\ symbol_list_head' = list
             /\ pc' = IF InsertNameInvalid(name) THEN "aborted" ELSE pc
             /\ symtab_call' =
                   [op |-> "insert", name |-> name,
                    ret |-> IF InsertNameInvalid(name) THEN NullPtr
                            ELSE HandleOf(list, symbol_lookup(list, name)),
                    before |-> symbol_list_head, freed |-> <<>>,
                    inserted |-> IF InsertNameInvalid(name) THEN symtab_call.inserted
                                 ELSE symtab_call.inserted \cup {name}]
    /\ UNCHANGED codegen_vars

SymLookup ==
    /\ pc = "symtab"
    /\ \E name \in SymNames \cup {NullPtr} :
          symtab_call' =
              [op |-> "lookup", name |-> name,
               ret |-> HandleOf(symbol_list_head, symbol_lookup(symbol_list_head, name)),
               before |-> symbol_list_head, freed |-> <<>>,
               inserted |-> symtab_call.inserted]
    /\ UNCHANGED <<symbol_list_head, pc>>
    /\ UNCHANGED codegen_vars

\* what the set operation on handle sym passes to free()
FreedBySet(list, sym) ==
    IF symbol_lookup(list, sym) = 0 THEN <<>>
    ELSE FreedBy(list[symbol_lookup(list, sym)])

SymSetScalar ==
    /\ pc = "symtab"
    /\ \E sym \in Handles(symbol_list_head), val \in SymScalars :
          /\ symbol_list_head' = symbol_set_scalar(symbol_list_head, sym, val)
          /\ symtab_call' =
                [op |-> "set_scalar", name |-> sym, ret |-> NullPtr,
                 before |-> symbol_list_head,
                 freed |-> FreedBySet(symbol_list_head, sym),
                 inserted |-> symtab_call.inserted]
    /\ UNCHANGED pc
    /\ UNCHANGED codegen_vars

\* data is NULL or points to at least size elements
SymSetVector ==
    /\ pc = "symtab"
    /\ \E sym \in Handles(symbol_list_head), data \in SymData, size \in 0..MaxSize :
          /\ data = <<>> \/ Len(data) >= size
          /\ symbol_list_head' = symbol_set_vector(symbol_list_head, sym, data, size)
          /\ symtab_call' =
                [op |-> "set_vector", name |-> sym, ret |-> NullPtr,
                 before |-> symbol_list_head,
                 freed |-> FreedBySet(symbol_list_head, sym),
                 inserted |-> symtab_call.inserted]
    /\ UNCHANGED pc
    /\ UNCHANGED codegen_vars

SymDestroy ==
    /\ pc = "symtab"
    /\ symbol_list_head' = symbol_table_destroy(symbol_list_head)
    /\ symtab_call' =
          [op |-> "destroy", name |-> NullPtr, ret |-> NullPtr,
           before |-> symbol_list_head, freed |-> AllFreed(symbol_list_head),
           inserted |-> {}]
    /\ UNCHANGED pc
    /\ UNCHANGED codegen_vars

SymtabNext ==
    \/ SymInsert
    \/ SymLookup
    \/ SymSetScalar
    \/ SymSetVector
    \/ SymDestroy

SymtabSpec == SymtabInit /\ [][SymtabNext]_vars

-----------------------------------------------------------------------------
(* Vocabulary of the properties *)

\* the table and the AST are alive: generate_code is running or has returned
Generating == pc \in {"gen", "returned"}

\* lines from+1 .. to of the output
Lines(from, to) == SubSeq(file, from + 1, to)

\* what the statement step taken last wrote
StepLines == Lines(last.out0, last.out1)

IsAssignmentLine(l) ==
    l.k = "assign" \/ (l.k = "vector_assign" /\ l.args[1].t = "id")

Events == {etrace[i] : i \in DOMAIN etrace}

\* the event of the expression a statement step translated at its top
RootEvent == etrace[Len(etrace)]

KindsOfOperands(ev) == {ev.kids[1].type, ev.kids[2].type}
IsMixedBinary(ev) ==
    /\ ev.node.type = "BINARY_OP"
    /\ KindsOfOperands(ev) = {SYMBOL_TYPE_SCALAR, SYMBOL_TYPE_VECTOR}

-----------------------------------------------------------------------------
(* C1: a binary '-', '*' or '/' between one Vector and one Scalar operand   *)
(* records a semantic error and emits nothing for that node (no helper     *)
(* call, no arithmetic statement, no temporary); the assignment around it  *)
(* emits no assignment.                                                    *)
C1_MixedNonAddRejected ==
    Generating =>
    \A ev \in Events :
        (IsMixedBinary(ev) /\ ev.node.op \in {"-", "*", "/"}) =>
            /\ ev.log1 = ev.logm + 1
            /\ errlog[ev.log1].msg = "Unsupported binary operation between scalar and vector."
            /\ ev.out1 = ev.outm
            /\ ev.ctr1 = ev.ctrm
            /\ last.err1 = 1
            /\ ev.code = TxtCode("0.0") /\ ev.type = SYMBOL_TYPE_SCALAR
            /\ last.node.type = "ASSIGNMENT" =>
                   \A i \in DOMAIN StepLines : ~IsAssignmentLine(StepLines[i])

C1_Witness ==
    /\ Generating
    /\ last.node.type = "ASSIGNMENT"
    /\ \E ev \in Events : IsMixedBinary(ev) /\ ev.node.op = "*"

(* C2: an Assignment whose right-hand side translated without error emits   *)
(* the assignment (direct for Scalar, vector_assign for Vector) and records *)
(* no error when the target's kind equals the expression's kind; when the   *)
(* kinds differ it records a type-mismatch error and emits no assignment.   *)
C2_AssignmentKindCheck ==
    (Generating /\ last.node.type = "ASSIGNMENT" /\ ~last.skipped
       /\ RootEvent.log1 = last.log0) =>
        LET target == last.node.target_symbol
            after == Lines(RootEvent.out1, last.out1)
        IN IF SymType(target) = RootEvent.type
           THEN /\ last.log1 = last.log0
                /\ last.err1 = 0
                /\ Len(after) = 2
                /\ after[2] = Line(IF RootEvent.type = SYMBOL_TYPE_SCALAR
                                   THEN "assign" ELSE "vector_assign",
                                   <<IdCode(target), RootEvent.code>>,
                                   IF RootEvent.type = SYMBOL_TYPE_SCALAR THEN "=" ELSE "",
                                   0)
           ELSE /\ last.log1 = last.log0 + 1
                /\ errlog[last.log1].msg = "Type mismatch in assignment"
                /\ last.err1 = 1
                /\ \A i \in DOMAIN StepLines : ~IsAssignmentLine(StepLines[i])

C2_Witness ==
    /\ Generating /\ last.node.type = "ASSIGNMENT" /\ ~last.skipped
    /\ RootEvent.log1 = last.log0
    /\ SymType(last.node.target_symbol) = SYMBOL_TYPE_SCALAR
    /\ RootEvent.type = SYMBOL_TYPE_VECTOR

(* C3: a scatter_plot call emits c_scatter_plot exactly when it has two     *)
(* arguments that both resolve to Vector; otherwise it records a semantic   *)
(* error and emits no plotting call.                                        *)
IsScatterPlot(ev) ==
    ev.node.type = "FUNC_CALL" /\ ev.node.function_symbol = "scatter_plot"

C3_ScatterPlotChecked ==
    Generating =>
    \A ev \in Events :
        IsScatterPlot(ev) =>
            /\ Len(ev.kids) = ev.node.arguments.count
            /\ IF /\ ev.node.arguments.count = 2
                  /\ ev.kids[1].type = SYMBOL_TYPE_VECTOR
                  /\ ev.kids[2].type = SYMBOL_TYPE_VECTOR
               THEN /\ Lines(ev.outm, ev.out1) =
                          <<Line("plot", <<ev.kids[1].code, ev.kids[1].code,
                                           ev.kids[2].code, ev.kids[2].code>>,
                                 "c_scatter_plot", 0)>>
                    /\ ev.log1 = ev.logm
               ELSE /\ ev.out1 = ev.outm
                    /\ ev.log1 = ev.logm + 1
                    /\ errlog[ev.log1].msg = "scatter_plot() expects 2 vector arguments."
                    /\ \A i \in DOMAIN StepLines : StepLines[i].k # "plot"

C3_Witness ==
    /\ Generating
    /\ \E ev \in Events :
          /\ IsScatterPlot(ev)
          /\ ev.node.arguments.count = 2
          /\ ev.kids[1].type = SYMBOL_TYPE_VECTOR
          /\ ev.kids[2].type = SYMBOL_TYPE_SCALAR

(* C4: a second generate_code run on the unchanged AST and table leaves the *)
(* same output as the run before it, whatever that run did.                 *)
C4_RerunIdentical ==
    (pc = "returned" /\ prev_out # <<>>) => file = prev_out

C4_Witness ==
    /\ pc = "returned" /\ prev_out # <<>>
    /\ codegen_error_occurred = 1
    /\ temp_var_counter > 0

(* C5: a run that recorded a semantic error is reported to the caller as a  *)
(* failure (non-zero), a run that recorded none as success.                 *)
C5_FailureReported ==
    (pc = "exit" /\ file # <<>>) =>
        (return_code # 0 <=> codegen_error_occurred = 1)

(* C6: within a run the semantic-error flag, once set, stays set; a          *)
(* statement whose translation starts with the flag set emits nothing (and  *)
(* allocates and reports nothing); output already written is never changed. *)
C6_StickyFailFast ==
    [][(pc = "gen" /\ pc' \in {"gen", "returned"}) =>
          /\ codegen_error_occurred = 1 => codegen_error_occurred' = 1
          /\ Len(file') >= Len(file) /\ SubSeq(file', 1, Len(file)) = file
          /\ (stack # <<>> /\ Head(stack).kind = "stmt" /\ codegen_error_occurred = 1) =>
                /\ file' = file
                /\ temp_var_counter' = temp_var_counter
                /\ errlog' = errlog
                /\ stack' = Tail(stack)]_vars

C6_Witness ==
    /\ pc = "gen"
    /\ last.skipped /\ last.err0 = 1 /\ last.node.type = "ASSIGNMENT"
    /\ \E i \in DOMAIN file : IsAssignmentLine(file[i])

\* a statement that, translated on its own with the flag clear, records an error
StmtRecordsError(node) ==
    LET clean == GenState(<<>>, 0, 0, <<>>, <<>>)
    IN CASE node.type = "ASSIGNMENT" -> AssignmentCase(node, <<>>, clean).s.err = 1
         [] IsExprNode(node) -> ExpressionCase(node, <<>>, clean).s.err = 1
         [] node.type = "IF" -> IfCase(node, <<>>, clean).s.err = 1
         [] node.type = "WHILE" -> WhileCase(node, <<>>, clean).s.err = 1
         [] OTHER -> FALSE

TopStatements == ast_root.statement_list

(* C7 as stated: every statement of the program that is ill-typed on its    *)
(* own has its semantic error reported in the run, also when an earlier     *)
(* statement already recorded one.                                          *)
C7_LaterErrorsReported ==
    pc = "returned" =>
    \A i \in 1..TopStatements.count :
        StmtRecordsError(TopStatements.items[i]) =>
            \E j \in DOMAIN errlog : errlog[j].at = <<i>>

(* C7 amended: after a statement recorded a semantic error the walk still   *)
(* calls generate_statement for each later statement, but the call returns  *)
(* at once: it emits and reports nothing, so all diagnostics of a run come  *)
(* from one statement.                                                      *)
C7_OnlyOneStatementReports ==
    Generating =>
        /\ \A j \in DOMAIN errlog : errlog[j].at = errlog[1].at
        /\ (last.skipped /\ last.node.type # "NULL") =>
               /\ last.err0 = 1
               /\ last.log1 = last.log0
               /\ last.out1 = last.out0

C7_Witness ==
    /\ pc = "returned"
    /\ TopStatements.count >= 2
    /\ StmtRecordsError(TopStatements.items[1])
    /\ StmtRecordsError(TopStatements.items[2])
    /\ Len(errlog) = 1
    /\ last.skipped

\* programs built only from numbers, Scalar symbols, unary negation and
\* binary arithmetic
RECURSIVE ScalarOnly(_)
ScalarOnly(node) ==
    CASE node.type = "NUMBER" -> TRUE
      [] node.type = "IDENTIFIER" -> SymType(node.identifier_symbol) = SYMBOL_TYPE_SCALAR
      [] node.type = "UNARY_OP" -> node.op = "-" /\ ScalarOnly(node.operand)
      [] node.type = "BINARY_OP" ->
           node.op \in BinOps /\ ScalarOnly(node.left) /\ ScalarOnly(node.right)
      [] node.type = "ASSIGNMENT" ->
           /\ SymType(node.target_symbol) = SYMBOL_TYPE_SCALAR
           /\ ScalarOnly(node.expression)
      [] node.type = "STATEMENT_LIST" ->
           \A i \in 1..node.statement_list.count : ScalarOnly(node.statement_list.items[i])
      [] node.type = "IF" ->
           /\ ScalarOnly(node.condition) /\ ScalarOnly(node.if_branch)
           /\ node.else_branch.type # "NULL" => ScalarOnly(node.else_branch)
      [] node.type = "WHILE" -> ScalarOnly(node.condition) /\ ScalarOnly(node.loop_body)
      [] OTHER -> FALSE

MentionsVectorTemp(l) ==
    \/ l.k \in {"vcall", "vector_assign", "arr_open", "arr_entry", "arr_close", "read", "plot"}
    \/ \E i \in DOMAIN l.args : l.args[i].t \in {"tv", "arr"}

\* the translated statements: what the walk wrote between the declarations
\* and the cleanup code
StatementSection ==
    Lines(Len(Prologue(symbol_list_head)),
          IF pc = "returned"
          THEN Len(file) - Len(Epilogue(symbol_list_head, temp_var_counter))
          ELSE Len(file))

VectorTempLines(k) == {i \in DOMAIN file : file[i].k = k /\ file[i].args[1].t = "tv"}

(* C8 as stated: for a scalar-only program every sub-expression resolves to *)
(* Scalar, no error is recorded, and the emitted program declares no vector *)
(* temporary and releases none in its cleanup code.                         *)
C8_NoVectorTemporaries ==
    (pc = "returned" /\ ScalarOnly(ast_root)) =>
        /\ \A ev \in Events : ev.type = SYMBOL_TYPE_SCALAR
        /\ errlog = <<>> /\ codegen_error_occurred = 0
        /\ VectorTempLines("decl") = {}
        /\ VectorTempLines("free") = {}

(* C8 amended: for a scalar-only program every sub-expression resolves to   *)
(* Scalar, no error is recorded and the translated statements allocate and  *)
(* use no vector temporary; the declarations still hold the fixed pool of   *)
(* 20 vector temporaries, and the cleanup code releases one _tv name for    *)
(* each temporary index handed out (all of them scalar temporaries here).   *)
C8_ScalarOnlyUsesNoVectorTemp ==
    (Generating /\ ScalarOnly(ast_root)) =>
        /\ \A ev \in Events : ev.type = SYMBOL_TYPE_SCALAR
        /\ errlog = <<>> /\ codegen_error_occurred = 0
        /\ \A i \in DOMAIN StatementSection : ~MentionsVectorTemp(StatementSection[i])
        /\ Cardinality(VectorTempLines("decl")) = TEMP_POOL
        /\ pc = "returned" => Cardinality(VectorTempLines("free")) = temp_var_counter

C8_Witness ==
    /\ pc = "returned" /\ ScalarOnly(ast_root)
    /\ temp_var_counter > 0
    /\ \E ev \in Events : ev.node.type = "BINARY_OP"

(* C9: translating a vector literal with N elements emits an initializer    *)
(* with exactly N entries in source order and one vector_assign binding a   *)
(* fresh vector temporary to it with length N, so that the runtime vector   *)
(* has length N; the result kind is Vector.                                 *)
C9_VectorLiteralLength ==
    Generating =>
    \A ev \in Events :
        ev.node.type = "VECTOR" =>
            LET N == ev.node.vector_elements.count
                tv == TvName(ev.ctr0)
                seg == Lines(ev.out0, ev.out1)
            IN /\ ev.code = tv /\ ev.type = SYMBOL_TYPE_VECTOR
               /\ Len(ev.kids) = N
               /\ Len(seg) = N + 4
               /\ seg[2].k = "arr_open"
               /\ \A i \in 1..N :
                     /\ seg[2 + i].k = "arr_entry"
                     /\ ev.kids[i].type = SYMBOL_TYPE_SCALAR =>
                            seg[2 + i].args[1] = ev.kids[i].code
               /\ seg[N + 3].k = "arr_close"
               /\ seg[N + 4] = Line("vector_assign", <<tv, InitDataName(tv)>>,
                                    "(Vector){ data, size }", N)
               /\ vector_assign([size |-> 0, data |-> <<>>],
                                [size |-> seg[N + 4].n,
                                 data |-> [i \in 1..N |-> seg[2 + i].args[1]]]).size = N

(* C10 as stated: a '+' between one Vector and one Scalar operand allocates *)
(* one vector temporary, records no error and emits one call of             *)
(* vector_add_scalar whose arguments are the left operand's code and then   *)
(* the right operand's code.                                                *)
C10_BroadcastSourceOrder ==
    Generating =>
    \A ev \in Events :
        (IsMixedBinary(ev) /\ ev.node.op = "+") =>
            /\ ev.ctr1 = ev.ctrm + 1
            /\ ev.log1 = ev.logm
            /\ ev.code = TvName(ev.ctrm) /\ ev.type = SYMBOL_TYPE_VECTOR
            /\ Lines(ev.outm, ev.out1) =
                  <<Line("vcall", <<TvName(ev.ctrm), ev.kids[1].code, ev.kids[2].code>>,
                         "vector_add_scalar", 0)>>

(* C10 amended: such a '+' allocates one vector temporary, records no error *)
(* and emits one call of vector_add_scalar whose arguments are the Vector   *)
(* operand's code and then the Scalar operand's code: source order for      *)
(* Vector + Scalar, swapped for Scalar + Vector.                            *)
C10_BroadcastVectorFirst ==
    Generating =>
    \A ev \in Events :
        (IsMixedBinary(ev) /\ ev.node.op = "+") =>
            LET vec == IF ev.kids[1].type = SYMBOL_TYPE_VECTOR THEN 1 ELSE 2
            IN /\ ev.ctr1 = ev.ctrm + 1
               /\ ev.log1 = ev.logm
               /\ ev.code = TvName(ev.ctrm) /\ ev.type = SYMBOL_TYPE_VECTOR
               /\ Lines(ev.outm, ev.out1) =
                     <<Line("vcall",
                            <<TvName(ev.ctrm), ev.kids[vec].code, ev.kids[3 - vec].code>>,
                            "vector_add_scalar", 0)>>

C10_Witness ==
    /\ Generating
    /\ \E ev \in Events :
          /\ IsMixedBinary(ev) /\ ev.node.op = "+"
          /\ ev.kids[1].type = SYMBOL_TYPE_SCALAR

\* the elements of a vector literal that resolved to a kind other than Scalar
NonScalarElements(ev) ==
    {i \in DOMAIN ev.kids : ev.kids[i].type # SYMBOL_TYPE_SCALAR}

\* the entry line written for element i of the vector literal of event ev:
\* the last line the element's translation and ElementLine wrote
EntryLines(ev) ==
    SelectSeq(Lines(ev.out0, ev.out1), LAMBDA l : l.k = "arr_entry")

(* C11: a vector-literal element that resolves to a non-Scalar kind gets a   *)
(* 0.0 placeholder in its position, and a semantic error is recorded, so    *)
(* the run is flagged as failed.                                            *)
C11_NonScalarElementIsError ==
    Generating =>
    \A ev \in Events :
        (ev.node.type = "VECTOR" /\ NonScalarElements(ev) # {}) =>
            /\ \A i \in NonScalarElements(ev) :
                  EntryLines(ev)[i].args =
                      <<TxtCode("/* WARNING: Non-scalar in vector literal */ 0.0")>>
            /\ ev.log1 > ev.log0
            /\ last.err1 = 1
            /\ codegen_error_occurred = 1

\* the runtime helper that computes op elementwise on two vectors
ElementwiseHelper(op) ==
    CASE op = "+" -> "vector_add"
      [] op = "-" -> "vector_sub"
      [] op = "*" -> "vector_mul"
      [] op = "/" -> "vector_div"

\* the vector temporaries named by the translated statements
VectorTempsOfStatements ==
    LET sec == StatementSection
        named == UNION {{sec[i].args[j] : j \in DOMAIN sec[i].args} : i \in DOMAIN sec}
    IN {c \in named : c.t = "tv"}

(* C12: a binary + - * / whose operands both resolve to Vector allocates     *)
(* exactly one new vector temporary and emits exactly one call of the       *)
(* matching elementwise helper with the left operand first; the result is   *)
(* that temporary, of kind Vector, and no error is recorded.  The program   *)
(* a = [..]; b = [..]; c = a + b with three Vector symbols uses three       *)
(* distinct vector temporaries and ends with the deep copy into c.          *)
C12_VectorVectorElementwise ==
    Generating =>
    /\ \A ev \in Events :
          (/\ ev.node.type = "BINARY_OP" /\ ev.node.op \in BinOps
           /\ KindsOfOperands(ev) = {SYMBOL_TYPE_VECTOR}) =>
              /\ ev.ctr1 = ev.ctrm + 1
              /\ ev.log1 = ev.logm
              /\ ev.code = TvName(ev.ctrm) /\ ev.type = SYMBOL_TYPE_VECTOR
              /\ Lines(ev.outm, ev.out1) =
                    <<Line("vcall", <<TvName(ev.ctrm), ev.kids[1].code, ev.kids[2].code>>,
                           ElementwiseHelper(ev.node.op), 0)>>
    /\ (/\ pc = "returned" /\ ast_root = BlockOf(ExampleProgram)
        /\ \A n \in {"a", "b", "c"} : SymType(n) = SYMBOL_TYPE_VECTOR) =>
              /\ errlog = <<>> /\ codegen_error_occurred = 0
              /\ VectorTempsOfStatements = {TvName(0), TvName(1), TvName(2)}
              /\ SubSeq(StatementSection, Len(StatementSection) - 3,
                        Len(StatementSection) - 1) =
                    <<Line("vcall", <<TvName(2), IdCode("a"), IdCode("b")>>, "vector_add", 0),
                      Line("cmt", <<>>, "RHS Type", TypeNum(SYMBOL_TYPE_VECTOR)),
                      Line("vector_assign", <<IdCode("c"), TvName(2)>>, "", 0)>>

C12_Witness ==
    /\ pc = "returned" /\ ast_root = BlockOf(ExampleProgram)
    /\ \A n \in {"a", "b", "c"} : SymType(n) = SYMBOL_TYPE_VECTOR
    /\ \E ev \in Events :
          /\ ev.node.type = "BINARY_OP"
          /\ KindsOfOperands(ev) = {SYMBOL_TYPE_VECTOR}

-----------------------------------------------------------------------------
(* Properties of the symbol table *)

TableNames(list) == {list[i].name : i \in DOMAIN list}

\* a symbol as symbol_insert must create it: Scalar 0.0
FreshSymbol(name) ==
    [name |-> name, type |-> SYMBOL_TYPE_SCALAR, value |-> [scalar_value |-> 0]]

(* C13: the table holds exactly one entry per inserted name; symbol_insert   *)
(* of a name already present returns the existing symbol and leaves the     *)
(* table, the symbol's kind and its payload as they were; symbol_insert of  *)
(* a new name adds an entry initialised to Scalar 0.0; symbol_lookup finds  *)
(* a name exactly when it was inserted since the last destroy.              *)
C13_InsertIdempotent ==
    pc = "symtab" =>
        /\ \A i, j \in DOMAIN symbol_list_head :
              symbol_list_head[i].name = symbol_list_head[j].name => i = j
        /\ TableNames(symbol_list_head) = symtab_call.inserted
        /\ symtab_call.op = "insert" =>
              /\ symtab_call.ret = symtab_call.name
              /\ IF symtab_call.name \in TableNames(symtab_call.before)
                 THEN symbol_list_head = symtab_call.before
                 ELSE symbol_list_head =
                          <<FreshSymbol(symtab_call.name)>> \o symtab_call.before
        /\ symtab_call.op = "lookup" =>
              /\ symbol_list_head = symtab_call.before
              /\ IF symtab_call.name \in symtab_call.inserted
                 THEN symtab_call.ret = symtab_call.name
                 ELSE symtab_call.ret = NullPtr

C13_Witness ==
    /\ pc = "symtab"
    /\ symtab_call.op = "insert"
    /\ Len(symtab_call.before) = 2
    /\ \E i \in DOMAIN symtab_call.before :
          /\ symtab_call.before[i].name = symtab_call.name
          /\ symtab_call.before[i].type = SYMBOL_TYPE_VECTOR

(* C14: symbol_insert called with an empty or an absent (NULL) name aborts   *)
(* the process and adds no entry to the table.                              *)
C14_InvalidNameAborts ==
    (symtab_call.op = "insert" /\ symtab_call.name \in {"", NullPtr}) =>
        /\ pc = "aborted"
        /\ symbol_list_head = symtab_call.before

(* C15: every symbol's payload matches its kind: a Scalar symbol owns no     *)
(* vector buffer, a Vector symbol's size is the number of elements of the   *)
(* buffer it owns; a set operation releases the buffer the symbol held.     *)
C15_PayloadMatchesKind ==
    /\ \A i \in DOMAIN symbol_list_head :
          LET sym == symbol_list_head[i]
          IN IF sym.type = SYMBOL_TYPE_SCALAR
             THEN DOMAIN sym.value = {"scalar_value"}
             ELSE /\ DOMAIN sym.value = {"data", "size"}
                  /\ sym.value.size = Len(sym.value.data)
    /\ symtab_call.op \in {"set_scalar", "set_vector"} =>
          \A i \in DOMAIN symtab_call.before :
              LET old == symtab_call.before[i]
              IN (/\ old.name = symtab_call.name
                  /\ old.type = SYMBOL_TYPE_VECTOR
                  /\ old.value.data # <<>>) =>
                     symtab_call.freed = <<old.value.data>>

-----------------------------------------------------------------------------
(* Properties of the assembled output *)

\* where the lines satisfying P(line) are in the output
Where(P(_)) == {i \in DOMAIN file : P(file[i])}

IsText(l, text) == l.k = "text" /\ l.op = text
IsSymbolDecl(l) == l.k = "decl" /\ l.args[1].t = "id"
IsPoolDecl(l) == l.k = "decl" /\ l.args[1].t \in {"ts", "tv"}

HelperLines == Where(LAMBDA l : l.k = "helper")
MainOpenLines == Where(LAMBDA l : l.k = "main_open")
SymbolDeclLines == Where(IsSymbolDecl)
PoolDeclLines == Where(IsPoolDecl)
StatementsMark == Where(LAMBDA l : IsText(l, "// --- Program Statements ---"))
CleanupMark == Where(LAMBDA l : IsText(l, "// --- Cleanup Code ---"))
FreeLines == Where(LAMBDA l : l.k = "free")
MainCloseLines == Where(LAMBDA l : l.k = "main_close")

\* the lines only the statement walk writes
WalkLines ==
    Where(LAMBDA l : l.k \in {"cmt", "binop", "vcall", "neg", "assign", "vector_assign",
                              "arr_open", "arr_entry", "arr_close", "read", "plot",
                              "call", "discard", "if", "while", "else", "close",
                              "block_open", "block_close"})

Before(A, B) == \A i \in A, j \in B : i < j

(* C16: in every run that opened its output, with or without semantic       *)
(* errors, the sections appear once each and in this order: helper library, *)
(* entry-point opening, symbol declarations, temporary pool, translated     *)
(* statements, cleanup code, entry-point closing.                           *)
C16_SectionOrder ==
    pc = "returned" =>
        /\ Cardinality(HelperLines) = Len(generate_runtime_helpers)
        /\ \A i, j \in HelperLines : file[i].op = file[j].op => i = j
        /\ Cardinality(MainOpenLines) = 1
        /\ Cardinality(SymbolDeclLines) = Len(symbol_list_head)
        /\ Cardinality(PoolDeclLines) = 2 * TEMP_POOL
        /\ Cardinality(StatementsMark) = 1
        /\ Cardinality(CleanupMark) = 1
        /\ Cardinality(MainCloseLines) = 1
        /\ WalkLines # {}
        /\ Before(HelperLines, MainOpenLines)
        /\ Before(MainOpenLines, SymbolDeclLines \cup PoolDeclLines)
        /\ Before(SymbolDeclLines, PoolDeclLines)
        /\ Before(PoolDeclLines, StatementsMark)
        /\ Before(StatementsMark, WalkLines)
        /\ Before(WalkLines, CleanupMark)
        /\ Before(CleanupMark, FreeLines)
        /\ Before(FreeLines, MainCloseLines)
        /\ Before(CleanupMark, MainCloseLines)
        /\ MainCloseLines = {Len(file)}

C16_Witness ==
    /\ pc = "returned"
    /\ codegen_error_occurred = 1
    /\ FreeLines # {} /\ SymbolDeclLines # {}
    /\ \E i \in WalkLines : file[i].k = "vcall"

\* the declarations of symbols, in the order they stand in the output
SymbolDecls == SelectSeq(file, IsSymbolDecl)

\* the names of a sequence of references, each once, in order of first reference
RECURSIVE FirstReferences(_, _)
FirstReferences(names, seen) ==
    IF names = <<>> THEN <<>>
    ELSE IF Head(names) \in seen THEN FirstReferences(Tail(names), seen)
    ELSE <<Head(names)>> \o FirstReferences(Tail(names), seen \cup {Head(names)})

Reversed(seq) == [i \in 1..Len(seq) |-> seq[Len(seq) + 1 - i]]

(* C17: the declaration section holds exactly one declaration per symbol of  *)
(* the table and none for another name, in the table's enumeration order,   *)
(* most recently inserted first: a zero-initialised double for a Scalar     *)
(* symbol, an empty Vector for a Vector symbol.                             *)
C17_OneDeclarationPerSymbol ==
    Generating =>
        /\ Len(SymbolDecls) = Len(symbol_list_head)
        /\ \A i \in DOMAIN symbol_list_head :
              /\ SymbolDecls[i].args = <<IdCode(symbol_list_head[i].name)>>
              /\ SymbolDecls[i].op =
                    IF symbol_list_head[i].type = SYMBOL_TYPE_SCALAR
                    THEN "double %s = 0.0;" ELSE "Vector %s = { NULL, 0 };"
        /\ [i \in DOMAIN SymbolDecls |-> SymbolDecls[i].args[1].n] =
              Reversed(FirstReferences(References(ast_root), {}))

C17_Witness ==
    /\ Generating
    /\ Len(symbol_list_head) >= 2
    /\ \E i, j \in DOMAIN symbol_list_head :
          /\ symbol_list_head[i].type = SYMBOL_TYPE_SCALAR
          /\ symbol_list_head[j].type = SYMBOL_TYPE_VECTOR

\* what the cleanup section passes to vector_free_data
Released == {file[i].args[1] : i \in FreeLines}

(* C18: the cleanup section releases every symbol whose kind is Vector, no   *)
(* symbol whose kind is Scalar, and every vector temporary the run          *)
(* allocated.                                                               *)
C18_CleanupReleasesVectors ==
    pc = "returned" =>
        /\ \A i \in FreeLines : file[i].op = "vector_free_data"
        /\ \A i \in DOMAIN symbol_list_head :
              IdCode(symbol_list_head[i].name) \in Released
                  <=> symbol_list_head[i].type = SYMBOL_TYPE_VECTOR
        /\ VectorTempsOfStatements \subseteq Released

C18_Witness ==
    /\ pc = "returned"
    /\ VectorTempsOfStatements # {}
    /\ \E i, j \in DOMAIN symbol_list_head :
          /\ symbol_list_head[i].type = SYMBOL_TYPE_SCALAR
          /\ symbol_list_head[j].type = SYMBOL_TYPE_VECTOR

IsGenericCall(ev) ==
    /\ ev.node.type = "FUNC_CALL"
    /\ ev.node.function_symbol \notin {"read_vector", "scatter_plot"}

(* C19: a call to a callee other than read_vector and scatter_plot emits one *)
(* call that lists every argument completely and in source order, a Vector  *)
(* argument as its data and its size, a Scalar argument as its code, and    *)
(* stores the value in exactly one new scalar temporary; the result kind is *)
(* Scalar.                                                                  *)
C19_GenericCallArguments ==
    Generating =>
    \A ev \in Events :
        IsGenericCall(ev) =>
            LET N == ev.node.arguments.count
                seg == Lines(ev.outm, ev.out1)
            IN /\ Len(ev.kids) = N
               /\ ev.ctr1 = ev.ctrm + 1
               /\ ev.code = TsName(ev.ctrm) /\ ev.type = SYMBOL_TYPE_SCALAR
               /\ Len(seg) = 1
               /\ seg[1].k = "call" /\ seg[1].op = ev.node.function_symbol
               /\ seg[1].args = <<TsName(ev.ctrm)>>
               /\ Len(seg[1].x) = N
               /\ \A i \in 1..N :
                     /\ seg[1].x[i].code = ev.kids[i].code
                     /\ seg[1].x[i].form =
                           IF ev.kids[i].type = SYMBOL_TYPE_VECTOR
                           THEN "%s.data, %s.size" ELSE "%s"
                     /\ seg[1].x[i].sep = IF i > 1 THEN 2 ELSE 0
                     /\ seg[1].x[i].kept =
                           IF ev.kids[i].type = SYMBOL_TYPE_VECTOR
                           THEN 2 * CodeLen(ev.kids[i].code) + 12
                           ELSE CodeLen(ev.kids[i].code)

(* C20: a unary operation emits a negation into a new scalar temporary, with *)
(* result kind Scalar and no error, exactly when its operator is '-' and    *)
(* its operand resolves to Scalar; for every other operator or operand kind *)
(* it records a semantic error, allocates no temporary and emits nothing.   *)
C20_UnaryNegationOnly ==
    Generating =>
    \A ev \in Events :
        ev.node.type = "UNARY_OP" =>
            IF ev.node.op = "-" /\ ev.kids[1].type = SYMBOL_TYPE_SCALAR
            THEN /\ ev.ctr1 = ev.ctrm + 1
                 /\ ev.log1 = ev.logm
                 /\ ev.code = TsName(ev.ctrm) /\ ev.type = SYMBOL_TYPE_SCALAR
                 /\ Lines(ev.outm, ev.out1) =
                       <<Line("neg", <<TsName(ev.ctrm), ev.kids[1].code>>, "-", 0)>>
            ELSE /\ ev.log1 = ev.logm + 1
                 /\ errlog[ev.log1].msg = "Unsupported unary operation or type mismatch"
                 /\ last.err1 = 1
                 /\ ev.ctr1 = ev.ctrm
                 /\ ev.out1 = ev.outm
                 /\ \A i \in DOMAIN StepLines : StepLines[i].k # "neg"

C20_Witness ==
    /\ Generating
    /\ \E ev \in Events :
          /\ ev.node.type = "UNARY_OP"
          /\ ev.node.op = "+"
          /\ ev.kids[1].type = SYMBOL_TYPE_SCALAR
    /\ last.err1 = 1

-----------------------------------------------------------------------------
(* Properties of the temporaries *)

IsTempName(c) == c.t \in {"ts", "tv"}

\* the temporaries declared in the pool
PoolNames == {file[i].args[1] : i \in PoolDeclLines}

\* the temporaries named by the lines from+1 .. to of the output
TempsNamed(from, to) ==
    LET sec == Lines(from, to)
        named == UNION {{sec[i].args[j] : j \in DOMAIN sec[i].args} : i \in DOMAIN sec}
    IN {c \in named : IsTempName(c)}

(* C22: every temporary named by the translated statements or by the cleanup *)
(* section is one of the temporaries declared in the pool, however many     *)
(* temporaries the program allocates.                                       *)
C22_TemporariesAreDeclared ==
    pc = "returned" =>
        TempsNamed(Len(Prologue(symbol_list_head)), Len(file)) \subseteq PoolNames

\* a line that names the temporary just handed out as its first argument
IsAllocLine(l) ==
    \/ l.k \in {"binop", "vcall", "neg", "call", "read"}
    \/ l.k = "cmt" /\ l.op = "Generating vector literal for"

\* the temporaries handed out while lines from+1 .. to were written, in order
Allocations(from, to) == SelectSeq(Lines(from, to), IsAllocLine)

AllocatedIndices(from, to) ==
    {Allocations(from, to)[i].args[1].i : i \in DOMAIN Allocations(from, to)}

(* C23: within a run the temporaries are handed out with the indices 0, 1,   *)
(* 2, ... from one counter shared by scalar and vector temporaries, so no   *)
(* two of them share an index or a name; for a binary operation every       *)
(* temporary of the left operand has a smaller index than every temporary   *)
(* of the right operand, and the operation's own temporary a larger one.    *)
C23_TemporariesIncrease ==
    Generating =>
        LET all == Allocations(Len(Prologue(symbol_list_head)), Len(file))
        IN /\ Len(all) = temp_var_counter
           /\ \A i \in DOMAIN all :
                 IsTempName(all[i].args[1]) /\ all[i].args[1].i = i - 1
           /\ \A e \in Events :
                 e.node.type = "BINARY_OP" =>
                    /\ \E l, r \in Events :
                          /\ l.node = e.node.left /\ r.node = e.node.right
                          /\ l.out0 = e.out0 /\ l.out1 = r.out0 /\ r.out1 = e.outm
                    /\ \A l, r \in Events :
                          (/\ l.node = e.node.left /\ r.node = e.node.right
                           /\ l.out0 = e.out0 /\ l.out1 = r.out0 /\ r.out1 = e.outm) =>
                             LET left == AllocatedIndices(l.out0, l.out1)
                                 right == AllocatedIndices(r.out0, r.out1)
                                 own == AllocatedIndices(e.outm, e.out1)
                             IN /\ \A a \in left, b \in right : a < b
                                /\ \A a \in left \cup right, o \in own : a < o

C23_Witness ==
    /\ Generating
    /\ \E e, l, r \in Events :
          /\ e.node.type = "BINARY_OP"
          /\ l.node = e.node.left /\ r.node = e.node.right
          /\ l.out0 = e.out0 /\ l.out1 = r.out0 /\ r.out1 = e.outm
          /\ AllocatedIndices(l.out0, l.out1) # {}
          /\ AllocatedIndices(r.out0, r.out1) # {}
          /\ AllocatedIndices(e.outm, e.out1) # {}

-----------------------------------------------------------------------------
(* Properties of If and While *)

\* line l stores a value in temporary c
AssignsTemp(l, c) == IsAllocLine(l) /\ l.k # "cmt" /\ l.args[1] = c

\* the statement step taken last translated a condition without an error
ConditionTranslated(kw) ==
    /\ Generating /\ last.node.type = kw /\ ~last.skipped
    /\ RootEvent.node = last.node.condition
    /\ RootEvent.log1 = last.log0

(* C24: the statements that compute a While condition are written once,      *)
(* before the loop header; nothing after the header, so nothing in the loop *)
(* body, stores into the condition's temporary; the header tests the        *)
(* condition's text against 0.0.                                            *)
C24_WhileConditionOnce ==
    /\ (ConditionTranslated("WHILE") /\ RootEvent.type = SYMBOL_TYPE_SCALAR) =>
          /\ RootEvent.out1 = last.out1 - 1
          /\ file[last.out1] = Line("while", <<RootEvent.code>>, "!= 0.0", 0)
          /\ \A i \in DOMAIN StepLines : StepLines[i].k = "while" => i = Len(StepLines)
    /\ Generating =>
          \A w \in DOMAIN file :
              (file[w].k = "while" /\ file[w].op = "!= 0.0"
                 /\ IsTempName(file[w].args[1])) =>
                  /\ \E j \in 1..(w - 1) : AssignsTemp(file[j], file[w].args[1])
                  /\ \A i, j \in DOMAIN file :
                        (AssignsTemp(file[i], file[w].args[1])
                           /\ AssignsTemp(file[j], file[w].args[1])) => (i = j /\ i < w)

C24_Witness ==
    /\ pc = "returned"
    /\ \E w \in DOMAIN file :
          /\ file[w].k = "while" /\ file[w].op = "!= 0.0"
          /\ IsTempName(file[w].args[1])
          /\ \E j \in DOMAIN file : j > w /\ IsAllocLine(file[j])

Keyword(node) == IF node.type = "IF" THEN "if" ELSE "while"

\* what generate_statement still has to do for an If once its guard is written
IfContinuation(node, path) ==
    <<StmtTask(node.if_branch, path \o <<1>>), EmitTask(Line("close", <<>>, "}", 0))>>
    \o (IF node.else_branch.type # "NULL"
        THEN <<EmitTask(Line("else", <<>>, "else {", 0)),
               StmtTask(node.else_branch, path \o <<2>>),
               EmitTask(Line("close", <<>>, "}", 0))>>
        ELSE <<>>)

(* C25: an If or While whose condition resolves to a non-Scalar kind records *)
(* a semantic error and writes an always-false guard instead of a test on   *)
(* the value; an If whose condition resolves to Scalar without error writes *)
(* the guard (condition) != 0.0, then the then-block, then the else-block   *)
(* exactly when the If has one.                                             *)
C25_ConditionKindChecked ==
    [][(/\ Walking /\ Top.kind = "stmt" /\ Top.node.type \in {"IF", "WHILE"}
        /\ codegen_error_occurred = 0
        /\ Len(etrace') > 0
        /\ etrace'[Len(etrace')].log1 = Len(errlog)) =>
          LET ev == etrace'[Len(etrace')]
              written == SubSeq(file', Len(file) + 1, Len(file'))
          IN /\ ev.node = Top.node.condition
             /\ IF ev.type # SYMBOL_TYPE_SCALAR
                THEN /\ codegen_error_occurred' = 1
                     /\ Len(errlog') = Len(errlog) + 1
                     /\ errlog'[Len(errlog')].msg = "Non-scalar condition"
                     /\ written[Len(written)] =
                           Line(Keyword(Top.node), <<TxtCode("0")>>,
                                "Type error in condition", 0)
                     /\ \A i \in DOMAIN written : written[i].op # "!= 0.0"
                ELSE /\ codegen_error_occurred' = 0 /\ errlog' = errlog
                     /\ written[Len(written)] =
                           Line(Keyword(Top.node), <<ev.code>>, "!= 0.0", 0)
                     /\ Top.node.type = "IF" =>
                           stack' = IfContinuation(Top.node, Top.path) \o Tail(stack)]_vars

C25_Witness ==
    /\ ConditionTranslated("IF")
    /\ RootEvent.type = SYMBOL_TYPE_SCALAR
    /\ last.node.else_branch.type # "NULL"
    /\ last.err1 = 0
    /\ stack # <<>> /\ Head(stack).kind = "stmt"
    /\ Len(file) = last.out1

\* the control is inside generate_code, or generate_code has just returned
InGenerateCode == pc \in {"gen", "returned", "failed_open"}

(* C26: a generation run changes nothing outside its own output and       *)
(* counters: no step of generate_code, from its call to its return,       *)
(* changes a symbol's name, kind or payload, the set or order of the table *)
(* entries, or any AST node or list, in successful and failing runs alike. *)
C26_GenerationReadsOnly ==
    [][InGenerateCode' =>
          (symbol_list_head' = symbol_list_head /\ ast_root' = ast_root)]_vars

C26_Witness ==
    /\ pc = "returned"
    /\ codegen_error_occurred = 1
    /\ symbol_list_head = ParsedTable(ast_root, {"v"})
    /\ Len(symbol_list_head) >= 2
    /\ ast_root.statement_list.count >= 2

-----------------------------------------------------------------------------
(* The node lists of ast.c driven through ast_add_* *)

MaxListLen == 9   \* items appended to one list: one more than INITIAL_LIST_CAPACITY

\* the parser's NodeList of call arguments while it is being built
ArgList(list) == [type |-> "ARG_LIST", arguments |-> list]

\* the NodeList a list-carrying node holds
ListOf(node) ==
    CASE node.type = "VECTOR" -> node.vector_elements
      [] node.type = "STATEMENT_LIST" -> node.statement_list
      [] node.type = "ARG_LIST" -> node.arguments
      [] OTHER -> EmptyList

\* what a caller hands in: a node, or NULL
AstElements == {ast_new_number(1), ast_new_identifier("x"), NullNode}

AstCall(op, element, after) ==
    [op |-> op, element |-> element, before |-> ast_root,
     appended |-> IF after # ast_root THEN Append(ast_call.appended, element)
                  ELSE ast_call.appended]

ast_vars == <<symbol_list_head, parse_result, output_file, file, temp_var_counter,
              codegen_error_occurred, errlog, stack, pc, prev_out, return_code,
              etrace, last, symtab_call, helper_call, run>>

AstInit ==
    /\ ast_root \in {ast_new_vector, ast_new_statement_list, ArgList(EmptyList)}
    /\ symbol_list_head = <<>>
    /\ parse_result = 0
    /\ output_file = "NULL"
    /\ file = <<>>
    /\ temp_var_counter = 0
    /\ codegen_error_occurred = 0
    /\ errlog = <<>>
    /\ stack = <<>>
    /\ pc = "ast"
    /\ prev_out = <<>>
    /\ return_code = 1
    /\ etrace = <<>>
    /\ last = NoStep
    /\ symtab_call = NoCall
    /\ ast_call = NoAstCall
    /\ helper_call = NoHelperCall
    /\ run = NoRun

AstAddVectorElement ==
    /\ pc = "ast" /\ ListOf(ast_root).count < MaxListLen
    /\ \E element \in AstElements :
          /\ ast_root' = ast_add_vector_element(ast_root, element)
          /\ ast_call' = AstCall("ast_add_vector_element", element,
                                 ast_add_vector_element(ast_root, element))
    /\ UNCHANGED ast_vars

AstAddStatement ==
    /\ pc = "ast" /\ ListOf(ast_root).count < MaxListLen
    /\ \E statement \in AstElements :
          /\ ast_root' = ast_add_statement(ast_root, statement)
          /\ ast_call' = AstCall("ast_add_statement", statement,
                                 ast_add_statement(ast_root, statement))
    /\ UNCHANGED ast_vars

AstAddArgument ==
    /\ pc = "ast" /\ ListOf(ast_root).count < MaxListLen
    /\ ast_root.type = "ARG_LIST"
    /\ \E argument \in AstElements :
          /\ ast_root' = ArgList(ast_add_argument(ast_root.arguments, argument))
          /\ ast_call' = AstCall("ast_add_argument", argument,
                                 ArgList(ast_add_argument(ast_root.arguments, argument)))
    /\ UNCHANGED ast_vars

AstNext == AstAddVectorElement \/ AstAddStatement \/ AstAddArgument

AstSpec == AstInit /\ [][AstNext]_vars

\* the add function that takes a node of this type
AdderOf(node) ==
    CASE node.type = "VECTOR" -> "ast_add_vector_element"
      [] node.type = "STATEMENT_LIST" -> "ast_add_statement"
      [] OTHER -> "ast_add_argument"

(* C27: after any sequence of appends to a node list the count never       *)
(* exceeds the capacity, the capacity is 0 or 8 times a power of two and   *)
(* changes only by doubling when an append finds the list full, the items  *)
(* are the appended elements in insertion order, an append leaves every    *)
(* earlier item in place, and an append of an absent element leaves the    *)
(* list unchanged.                                                         *)
C27_NodeListAppends ==
    pc = "ast" =>
        LET l == ListOf(ast_root)
            b == ListOf(ast_call.before)
        IN /\ l.count = Len(l.items) /\ l.count <= l.capacity
           /\ l.capacity = 0 \/ \E k \in 0..MaxListLen :
                                   l.capacity = INITIAL_LIST_CAPACITY * 2^k
           /\ l.items = ast_call.appended
           /\ \A i \in DOMAIN l.items : l.items[i] # NullNode
           /\ ast_call.op # "none" =>
                 IF ast_call.element = NullNode \/ ast_call.op # AdderOf(ast_call.before)
                 THEN ast_root = ast_call.before
                 ELSE /\ l.items = Append(b.items, ast_call.element)
                      /\ l.count = b.count + 1
                      /\ l.capacity =
                            IF b.count < b.capacity THEN b.capacity
                            ELSE IF b.capacity = 0 THEN INITIAL_LIST_CAPACITY
                            ELSE 2 * b.capacity

C27_Witness ==
    /\ pc = "ast"
    /\ ast_call.op = "ast_add_statement"
    /\ ListOf(ast_call.before).count = INITIAL_LIST_CAPACITY
    /\ ListOf(ast_call.before).capacity = INITIAL_LIST_CAPACITY
    /\ ListOf(ast_root).count = INITIAL_LIST_CAPACITY + 1
    /\ ListOf(ast_root).capacity = 2 * INITIAL_LIST_CAPACITY

IsOpening(l) == l.k \in {"block_open", "if", "while", "else"}
IsClosing(l) == l.k \in {"block_close", "close"}

\* among the first n lines of seq, how many satisfy P
CountIn(seq, n, P(_)) == Cardinality({i \in 1..n : P(seq[i])})

\* every closing marker closes an opening marker written before it, and no
\* opening marker is left open
Balanced(seq) ==
    /\ \A n \in 1..Len(seq) : CountIn(seq, n, IsClosing) <= CountIn(seq, n, IsOpening)
    /\ CountIn(seq, Len(seq), IsClosing) = CountIn(seq, Len(seq), IsOpening)

(* C28: for every program, including those in which a semantic error is    *)
(* first recorded while translating an If or While condition, the scope and *)
(* brace markers of the translated statements are balanced: every opening   *)
(* marker of a block, an if, an else or a while has its closing marker      *)
(* before the cleanup section starts.                                       *)
C28_BracesBalanced == pc = "returned" => Balanced(StatementSection)

\* the names the entry point declares as variables for the table's symbols
DeclaredNames == {file[i].args[1].n : i \in SymbolDeclLines}

\* the names the translated statements call as generic external functions
CalledNames == {file[i].op : i \in Where(LAMBDA l : l.k = "call")}

(* C30: when the callee of every FuncCall is an entry of the one symbol     *)
(* table, no name is both declared as a variable in the emitted entry point *)
(* and called as a function in the emitted statements: the declarations     *)
(* never shadow a generic external function the statements call.            *)
C30_NoShadowedCallee == pc = "returned" => DeclaredNames \cap CalledNames = {}

-----------------------------------------------------------------------------
(* The emitted vector helpers as they execute (codegen.c:92-173) *)

MaxHelperLen == 2      \* size of a vector handed to a helper

\* a Vector value: size and the contents of data; no contents is data == NULL
VectorValue(data) == [size |-> Len(data), data |-> data]

\* a / b on doubles, b # 0.0, kept as the fraction
Quotient(a, b) == [num |-> a, den |-> b]

ElementOp(op, a, b) ==
    CASE op = "vector_add" -> a + b
      [] op = "vector_sub" -> a - b
      [] op = "vector_mul" -> a * b
      [] op = "vector_div" -> Quotient(a, b)

DivisorRejected_Never(op, d) == FALSE

\* the test at the top of vector_div's loop body (codegen.c:167)
DivisorRejected(op, d) == op = "vector_div" /\ d = 0

\* one helper call in progress: exit(1) taken or not, result.data filled so
\* far, and the divisors handed to the division so far
HelperRun(aborted, data, divisors) ==
    [aborted |-> aborted, data |-> data, divisors |-> divisors]

\* for (size_t i = 0; i < result.size; ++i) { ... }, from element i (1-based)
RECURSIVE ElementLoop(_, _, _, _, _, _)
ElementLoop(op, v1, v2, size, i, r) ==
    IF i > size THEN r
    ELSE IF DivisorRejected(op, v2.data[i]) THEN [r EXCEPT !.aborted = TRUE]
    ELSE ElementLoop(op, v1, v2, size, i + 1,
                     [r EXCEPT !.data = Append(@, ElementOp(op, v1.data[i], v2.data[i])),
                               !.divisors = IF op = "vector_div"
                                            THEN Append(@, v2.data[i]) ELSE @])

\* the common body of vector_add / vector_sub / vector_mul / vector_div
VectorElementwise(op, v1, v2) ==
    IF v1.size # v2.size THEN HelperRun(TRUE, <<>>, <<>>)
    ELSE ElementLoop(op, v1, v2, v1.size, 1, HelperRun(FALSE, <<>>, <<>>))

vector_add(v1, v2) == VectorElementwise("vector_add", v1, v2)
vector_sub(v1, v2) == VectorElementwise("vector_sub", v1, v2)
vector_mul(v1, v2) == VectorElementwise("vector_mul", v1, v2)
vector_div(v1, v2) == VectorElementwise("vector_div", v1, v2)

HelperValues == {0, 1, 2}
HelperVectors ==
    {VectorValue(d) : d \in UNION {[1..n -> HelperValues] : n \in 0..MaxHelperLen}}

HelperCall(op, v1, v2, r) ==
    [op |-> op, v1 |-> v1, v2 |-> v2, aborted |-> r.aborted,
     result |-> IF r.aborted THEN <<>> ELSE r.data, divisors |-> r.divisors]

helper_frame == <<symbol_list_head, ast_root, parse_result, output_file, file,
                  temp_var_counter, codegen_error_occurred, errlog, stack, pc,
                  prev_out, return_code, etrace, last, symtab_call, ast_call, run>>

\* a caller holds two vectors
HelperInit ==
    /\ \E v1 \in HelperVectors, v2 \in HelperVectors :
          helper_call = [NoHelperCall EXCEPT !.v1 = v1, !.v2 = v2]
    /\ symbol_list_head = <<>>
    /\ ast_root = NullNode
    /\ parse_result = 0
    /\ output_file = "NULL"
    /\ file = <<>>
    /\ temp_var_counter = 0
    /\ codegen_error_occurred = 0
    /\ errlog = <<>>
    /\ stack = <<>>
    /\ pc = "helper"
    /\ prev_out = <<>>
    /\ return_code = 1
    /\ etrace = <<>>
    /\ last = NoStep
    /\ symtab_call = NoCall
    /\ ast_call = NoAstCall
    /\ run = NoRun

CallVectorAdd ==
    /\ pc = "helper" /\ helper_call.op = "none"
    /\ helper_call' = HelperCall("vector_add", helper_call.v1, helper_call.v2,
                                 vector_add(helper_call.v1, helper_call.v2))
    /\ UNCHANGED helper_frame

CallVectorSub ==
    /\ pc = "helper" /\ helper_call.op = "none"
    /\ helper_call' = HelperCall("vector_sub", helper_call.v1, helper_call.v2,
                                 vector_sub(helper_call.v1, helper_call.v2))
    /\ UNCHANGED helper_frame

CallVectorMul ==
    /\ pc = "helper" /\ helper_call.op = "none"
    /\ helper_call' = HelperCall("vector_mul", helper_call.v1, helper_call.v2,
                                 vector_mul(helper_call.v1, helper_call.v2))
    /\ UNCHANGED helper_frame

CallVectorDiv ==
    /\ pc = "helper" /\ helper_call.op = "none"
    /\ helper_call' = HelperCall("vector_div", helper_call.v1, helper_call.v2,
                                 vector_div(helper_call.v1, helper_call.v2))
    /\ UNCHANGED helper_frame

HelperNext == CallVectorAdd \/ CallVectorSub \/ CallVectorMul \/ CallVectorDiv

HelperSpec == HelperInit /\ [][HelperNext]_vars

\* the i-th element the helper named op has to deliver
ExpectedElement(op, a, b) ==
    IF op = "vector_add" THEN a + b
    ELSE IF op = "vector_sub" THEN a - b
    ELSE IF op = "vector_mul" THEN a * b
    ELSE [num |-> a, den |-> b]

(* C21: the emitted helpers vector_add, vector_sub, vector_mul and          *)
(* vector_div abort when the two input lengths differ; for equal lengths    *)
(* they return a new vector of that length whose i-th element is the        *)
(* operation applied to the i-th inputs; vector_div aborts if any divisor   *)
(* element is exactly zero and never divides by zero.                       *)
C21_ElementwiseHelpers ==
    (pc = "helper" /\ helper_call.op # "none") =>
        LET c == helper_call
            zero == c.op = "vector_div" /\ \E i \in 1..c.v2.size : c.v2.data[i] = 0
        IN /\ c.v1.size # c.v2.size => c.aborted
           /\ (c.v1.size = c.v2.size /\ zero) => c.aborted
           /\ (c.v1.size = c.v2.size /\ ~zero) =>
                 /\ ~c.aborted
                 /\ Len(c.result) = c.v1.size
                 /\ \A i \in 1..c.v1.size :
                       c.result[i] = ExpectedElement(c.op, c.v1.data[i], c.v2.data[i])
           /\ \A i \in DOMAIN c.divisors : c.divisors[i] # 0

C21_Witness ==
    /\ pc = "helper"
    /\ helper_call.op = "vector_div"
    /\ helper_call.v1.size = MaxHelperLen /\ helper_call.v2.size = MaxHelperLen
    /\ helper_call.v2.data[MaxHelperLen] = 0
    /\ helper_call.divisors # <<>>
    /\ helper_call.aborted

-----------------------------------------------------------------------------
(* The generated program in execution: main() of output.c, line by line *)

\* v = [1]; x = n; while (x) { v = v + v; x = x - 1; }
CountdownProgram(n) ==
    <<ast_new_assignment("v", VectorOf(<<ast_new_number(1)>>)),
      ast_new_assignment("x", ast_new_number(n)),
      ast_new_while(ast_new_identifier("x"),
                    BlockOf(<<ast_new_assignment("v",
                                  ast_new_binary_op("+", ast_new_identifier("v"),
                                                    ast_new_identifier("v"))),
                              ast_new_assignment("x",
                                  ast_new_binary_op("-", ast_new_identifier("x"),
                                                    ast_new_number(1)))>>))>>

\* the programs that are run, each with the names the parser made Vector
RunCases ==
    {[prog |-> CountdownProgram(n), vecs |-> {"v"}] : n \in 0..2}
    \cup {[prog |-> ExampleProgram, vecs |-> {"a", "b", "c"}]}

\* the value of a scalar operand text
Eval(code, r) ==
    CASE code.t = "num" -> code.i
      [] code.t \in {"id", "ts"} -> r.scal[code]
      [] OTHER -> 0

\* the closing marker of the opening marker in line i
MatchingClose(i) ==
    CHOOSE j \in (i + 1)..Len(file) :
        /\ IsClosing(file[j])
        /\ \A m \in (i + 1)..j :
              Cardinality({q \in (i + 1)..m : IsClosing(file[q])})
                 <= Cardinality({q \in (i + 1)..m : IsOpening(file[q])})
                    + (IF m = j THEN 1 ELSE 0)
        /\ Cardinality({q \in (i + 1)..j : IsClosing(file[q])})
              = Cardinality({q \in (i + 1)..j : IsOpening(file[q])}) + 1

\* the opening marker a closing marker in line j closes
MatchingOpen(j) ==
    CHOOSE i \in 1..(j - 1) : IsOpening(file[i]) /\ MatchingClose(i) = j

NullVector == [size |-> 0, data |-> <<>>, buf |-> 0]

Goto(r, ip) == [r EXCEPT !.ip = ip]
Step(r) == Goto(r, r.ip + 1)

\* malloc inside vector_create / vector_assign: a fresh buffer for a non-empty
\* vector, NULL otherwise
Allocated(r, name, size, data) ==
    IF size > 0
    THEN [r EXCEPT !.vec = (name :> [size |-> size, data |-> data, buf |-> r.next]) @@ @,
                   !.heap = @ \cup {r.next},
                   !.next = @ + 1]
    ELSE [r EXCEPT !.vec = (name :> NullVector) @@ @]

\* vector_free_data(&name) (codegen.c:105-112)
vector_free_data(r, name) ==
    IF r.vec[name].buf # 0
    THEN [r EXCEPT !.heap = @ \ {r.vec[name].buf},
                   !.vec = (name :> NullVector) @@ @]
    ELSE r

\* name = <helper result>; the struct is overwritten, whatever it owned
Overwritten(r, name) ==
    IF r.vec[name].buf # 0 THEN [r EXCEPT !.lost = @ \cup {r.vec[name].buf}] ELSE r

ExecDecl(r, l) ==
    IF l.args[1].t = "ts" THEN Step(r)
    ELSE IF l.op = "double %s = 0.0;"
    THEN Step([r EXCEPT !.scal = (l.args[1] :> 0) @@ @])
    ELSE Step([r EXCEPT !.vec = (l.args[1] :> NullVector) @@ @])

\* vector_assign(&dst, src) (codegen.c:115-126)
ExecVectorAssign(r, l) ==
    LET dst == l.args[1]
        src == IF l.args[2].t = "arr" THEN [size |-> l.n, data |-> r.init]
               ELSE r.vec[l.args[2]]
        new == vector_assign(r.vec[dst], src)
    IN Step(Allocated(vector_free_data(r, dst), dst, new.size, new.data))

\* _tvN = vector_add(a, b);  and the other elementwise helpers
ExecVectorCall(r, l) ==
    LET res == VectorElementwise(l.op, r.vec[l.args[2]], r.vec[l.args[3]])
    IN IF res.aborted THEN [r EXCEPT !.aborted = TRUE]
       ELSE Step(Allocated(Overwritten(r, l.args[1]), l.args[1], Len(res.data), res.data))

ExecBinop(r, l) ==
    LET a == Eval(l.args[2], r)
        b == Eval(l.args[3], r)
        v == CASE l.op = "+" -> a + b
               [] l.op = "-" -> a - b
               [] OTHER -> a * b
    IN Step([r EXCEPT !.scal = (l.args[1] :> v) @@ @])

Supported(l) ==
    /\ l.k \in {"text", "helper", "cmt", "main_open", "main_close", "decl", "arr_open",
                "arr_entry", "arr_close", "vector_assign", "vcall", "binop", "neg",
                "assign", "while", "close", "block_open", "block_close", "free"}
    /\ l.k = "vcall" => l.op \in {"vector_add", "vector_sub", "vector_mul", "vector_div"}
    /\ l.k = "binop" => l.op \in {"+", "-", "*"}
    /\ l.k = "vector_assign" => l.args[1] # l.args[2]

\* the effect of the statement in line r.ip
Exec(r, l) ==
    CASE l.k = "decl" -> ExecDecl(r, l)
      [] l.k = "arr_open" -> Step([r EXCEPT !.init = <<>>])
      [] l.k = "arr_entry" -> Step([r EXCEPT !.init = Append(@, Eval(l.args[1], r))])
      [] l.k = "vector_assign" -> ExecVectorAssign(r, l)
      [] l.k = "vcall" -> ExecVectorCall(r, l)
      [] l.k = "binop" -> ExecBinop(r, l)
      [] l.k = "neg" -> Step([r EXCEPT !.scal = (l.args[1] :> (0 - Eval(l.args[2], r))) @@ @])
      [] l.k = "assign" -> Step([r EXCEPT !.scal = (l.args[1] :> Eval(l.args[2], r)) @@ @])
      [] l.k = "while" -> IF Eval(l.args[1], r) # 0 THEN Step(r)
                          ELSE Goto(r, MatchingClose(r.ip) + 1)
      [] l.k = "close" -> IF file[MatchingOpen(r.ip)].k = "while"
                          THEN Goto(r, MatchingOpen(r.ip))
                          ELSE Step(r)
      [] l.k = "free" -> Step(vector_free_data(r, l.args[1]))
      [] OTHER -> Step(r)

run_frame == <<symbol_list_head, ast_root, parse_result, output_file, file,
               temp_var_counter, codegen_error_occurred, errlog, stack,
               prev_out, return_code, etrace, last, symtab_call, ast_call, helper_call>>

RunInit ==
    /\ \E c \in RunCases :
          /\ ast_root = BlockOf(c.prog)
          /\ symbol_list_head = ParsedTable(BlockOf(c.prog), c.vecs)
    /\ parse_result = 0
    /\ output_file = "NULL"
    /\ file = <<>>
    /\ temp_var_counter = 0
    /\ codegen_error_occurred = 0
    /\ errlog = <<>>
    /\ stack = <<>>
    /\ pc = "parsed"
    /\ prev_out = <<>>
    /\ return_code = 1
    /\ etrace = <<>>
    /\ last = NoStep
    /\ symtab_call = NoCall
    /\ ast_call = NoAstCall
    /\ helper_call = NoHelperCall
    /\ run = NoRun

\* output.c is compiled and started: it was generated without a recorded
\* error and its temporaries fit the declared pool
RunStart ==
    /\ pc = "returned"
    /\ codegen_error_occurred = 0 /\ temp_var_counter < TEMP_POOL
    /\ {i \in DOMAIN file : ~Supported(file[i])} = {}
    /\ run' = Goto(NoRun, 1)
    /\ pc' = "running"
    /\ UNCHANGED run_frame

\* one line of the running program; exit(1) in a helper and the return of
\* main end the run
ExecLine ==
    /\ pc = "running"
    /\ run' = Exec(run, file[run.ip])
    /\ pc' = IF file[run.ip].k = "main_close" \/ run'.aborted THEN "ran" ELSE pc
    /\ UNCHANGED run_frame

RunNext ==
    \/ GenerateCodeBegin
    \/ GenStmtList
    \/ GenStmtAssignment
    \/ GenStmtWhile
    \/ EmitAfterChild
    \/ GenerateCodeEnd
    \/ RunStart
    \/ ExecLine

RunSpec == RunInit /\ [][RunNext]_vars

(* C29: in any execution of a generated program whose generation recorded  *)
(* no error and used fewer temporaries than the pool holds, every buffer    *)
(* allocated by a vector helper is released exactly once by the end of the  *)
(* program: no vector temporary or variable is overwritten while it still   *)
(* owns an unreleased buffer, also when the statement producing it lies in  *)
(* a While body that executes more than once.                               *)
C29_BuffersReleasedOnce ==
    (pc \in {"running", "ran"} /\ codegen_error_occurred = 0
                               /\ temp_var_counter < TEMP_POOL) =>
        /\ run.lost = {}
        /\ (pc = "ran" /\ ~run.aborted) => run.heap = {}

====
